---- MODULE Spec2Model ----
(***************************************************************************)
(* Cross-modal emotional-state fusion of the AI communication companion:   *)
(* IntegratedEmotionAnalysis (the fusion engine) and the slot table of     *)
(* EmotionAnalysisService (the session orchestrator).                      *)
(*                                                                         *)
(* Numbers.  Metrics are JavaScript numbers that the back-ends round to    *)
(* integers; they are modelled as integers, with two codes for the values  *)
(* that are no ordinary number (NaN, Undefined).  Weights are decimals     *)
(* with two places (0.3, 0.35, 0.2, 0.2/2); they are kept in hundredths,   *)
(* so every sum, product and quotient of the fusion is computed exactly.   *)
(* A confidence is the exact fraction num/den in lowest terms (den = 0     *)
(* stands for NaN).  The code computes in IEEE doubles; the exact value    *)
(* can differ from the double only when a weighted mean lies within        *)
(* rounding error of a half.                                               *)
(***************************************************************************)
EXTENDS Integers, Sequences, FiniteSets

VARIABLES
    currentEmotionalStates, \* EmotionAnalysisService.currentEmotionalStates:
                            \* the object's own keys in insertion order,
                            \* a sequence of [key, value]
    modalityWeights,        \* IntegratedEmotionAnalysis.modalityWeights (hundredths)
    ret,                    \* what the last call returned to its caller
    inflight,               \* the analyzeText / analyzeAudio / analyzeVideo calls
                            \* suspended at their await: for each modality the
                            \* inputs of its calls, in the order they started
    store,                  \* the Redux communication slice: mode, emotionalStates
    initialized,            \* EmotionAnalysisService.initialize has set the three
                            \* back-end services (FALSE: they are still null)
    singletons,             \* the static fields instance and initializationPromise
                            \* of EmotionAnalysisService and AudioAnalysisService,
                            \* and the getInstance call suspended at its await
    handlers,               \* the chat components' handlers suspended at an await,
                            \* the messages sent and the audio chunks delivered
    recorder,               \* AudioChat: audioState.isRecording, the MediaRecorder,
                            \* its duration timer and the seconds since it started
    face                    \* FaceAnalysisService.lastExpressions

vars == <<currentEmotionalStates, modalityWeights, ret, inflight, store, initialized,
          singletons, handlers, recorder, face>>

Modalities == {"text", "audio", "video"}

-----------------------------------------------------------------------------
(* Values that are no ordinary number *)

NaN == 1000001
Undefined == 1000002
Infinity == 1000000                       \* above every ordinary number of the model

isNaN(v) == v = NaN \/ v = Undefined      \* the global isNaN coerces undefined to NaN
isFinite(v) == ~isNaN(v) /\ v # Infinity /\ v # 0 - Infinity
IsNumberType(v) == v # Undefined          \* typeof v === 'number' (NaN is a number)

Abs(x) == IF x < 0 THEN 0 - x ELSE x
Min(a, b) == IF a < b THEN a ELSE b
Max(a, b) == IF a > b THEN a ELSE b

\* Math.round(n / d) for d > 0: the nearest integer, halves towards +infinity
RoundDiv(n, d) == (2 * n + d) \div (2 * d)

RECURSIVE Gcd(_, _)
Gcd(a, b) == IF b = 0 THEN a ELSE Gcd(b, a % b)

\* the fraction n/d (d > 0, n >= 0) in lowest terms
Frac(n, d) == LET g == Gcd(n, d) IN [num |-> n \div g, den |-> d \div g]
NaNFraction == [num |-> 0, den |-> 0]
FracLess(a, b) == a.num * b.den < b.num * a.den

-----------------------------------------------------------------------------
(* Bounds of the model *)

\* Readings the back-ends and the store hand to the service.  The second is
\* malformed in every field (updateFromRedux stores it as {50, 100, 0}).
ReadingPool ==
    << [stress |-> 80, clarity |-> 40, engagement |-> 90],
       [stress |-> NaN, clarity |-> 150, engagement |-> 0 - 5],
       [stress |-> 20, clarity |-> 90, engagement |-> 30],
       [stress |-> 50, clarity |-> 59, engagement |-> 60],
       [stress |-> 0, clarity |-> 100, engagement |-> 40] >>
NumReadings == 2
Readings == {ReadingPool[i] : i \in 1..Min(NumReadings, Len(ReadingPool))}

\* Weights (hundredths) a caller passes to updateModalityWeights
WeightValues == {0}

\* Valid readings for the fusion taken alone: differences of 0, 30 and 31
\* points, the extremes 0 and 100, a conflict in stress, clarity or engagement
StressPool == <<0, 20, 50, 51, 81, 100, 1, 99>>
NumStressValues == 5
StressValues == {StressPool[i] : i \in 1..Min(NumStressValues, Len(StressPool))}
ClarityValues == {40, 71}
FusionReadings ==
    {[stress |-> s, clarity |-> c, engagement |-> 100 - s] :
        s \in StressValues, c \in ClarityValues}

\* Texts handed to analyzeText.  A text is one sentence of `words` words,
\* `unique` of them distinct, with or without a comma, semicolon or colon,
\* `marks` exclamation and question marks, `pronouns` personal pronouns,
\* `positive` and `negative` sentiment words and no intensifier; the last is
\* no string at all.
TextInputs ==
    { [isString |-> TRUE, words |-> 6, unique |-> 6, punctuation |-> TRUE, marks |-> 1,
       pronouns |-> 1, positive |-> 1, negative |-> 0],
      [isString |-> TRUE, words |-> 100, unique |-> 100, punctuation |-> FALSE, marks |-> 0,
       pronouns |-> 0, positive |-> 0, negative |-> 0],
      [isString |-> FALSE, words |-> 0, unique |-> 0, punctuation |-> FALSE, marks |-> 0,
       pronouns |-> 0, positive |-> 0, negative |-> 0] }

\* What a model predicts for one input, as percentages (the prediction
\* times 100): the three outputs of model.predict
HighStressPrediction == [stress |-> 100, clarity |-> 20, engagement |-> 90]

\* Audio buffers handed to analyzeAudio: their size and what the model
\* predicts for them
AudioInputs ==
    { [byteLength |-> 4096, prediction |-> HighStressPrediction],
      [byteLength |-> 50, prediction |-> HighStressPrediction] }

\* Video frames handed to analyzeVideo: what the model predicts for them
VideoInputs == { [prediction |-> HighStressPrediction] }

\* Calls that may be suspended at their await at the same time
MaxInFlight == 2

-----------------------------------------------------------------------------
(* The JavaScript object currentEmotionalStates *)

Keys(obj) == [i \in 1..Len(obj) |-> obj[i].key]       \* Object.keys: insertion order
HasKey(obj, k) == \E i \in 1..Len(obj) : obj[i].key = k
Get(obj, k) == obj[CHOOSE i \in 1..Len(obj) : obj[i].key = k].value

\* mutant: the assignment replaces the whole object, { [k]: v }
SetKey_ReplacesObject(obj, k, v) == <<[key |-> k, value |-> v]>>

\* mutant: a key that exists keeps its value
SetKey_KeepsExisting(obj, k, v) ==
    IF HasKey(obj, k) THEN obj ELSE Append(obj, [key |-> k, value |-> v])

\* obj[k] = v: an existing key keeps its place, a new key goes last
SetKey(obj, k, v) ==
    IF HasKey(obj, k)
    THEN [i \in 1..Len(obj) |-> IF obj[i].key = k THEN [key |-> k, value |-> v] ELSE obj[i]]
    ELSE Append(obj, [key |-> k, value |-> v])

\* mutant: the object is reset to {} instead of losing one key
DeleteKey_ResetsObject(obj, k) == <<>>

\* delete obj[k]
DeleteKey(obj, k) == SelectSeq(obj, LAMBDA e : e.key # k)

-----------------------------------------------------------------------------
(* IntegratedEmotionAnalysis: the fusion engine *)

DefaultWeights == [text |-> 30, audio |-> 35, video |-> 35]

threshold == 30
boost == 20
MinConfidence == [num |-> 3, den |-> 10]
SafeTotalWeight == 100          \* the literal 1 of "totalWeight > 0 ? totalWeight : 1"
NeutralMetric == 50

NeutralState == [stress |-> NeutralMetric, clarity |-> NeutralMetric,
                 engagement |-> NeutralMetric]

\* the object returned when no modality is active
DefaultAnalysis ==
    [emotionalState |-> NeutralState, confidence |-> Frac(0, 1),
     activeModalities |-> <<>>]

RECURSIVE SumWeights(_, _)
SumWeights(modalities, w) ==
    IF modalities = <<>> THEN 0
    ELSE w[Head(modalities)] + SumWeights(Tail(modalities), w)

validateEmotions(emotions) ==
    \A i \in 1..Len(emotions) :
        /\ IsNumberType(emotions[i].stress)
        /\ IsNumberType(emotions[i].clarity)
        /\ IsNumberType(emotions[i].engagement)

\* Sums the stored weights (not the rebalanced ones).  With a zero total the
\* quotient is 0/0 = NaN for non-negative weights, and Math.max(0.3, NaN) is NaN.
calculateConfidence(activeModalities, w) ==
    IF Len(activeModalities) = 0 THEN Frac(0, 1)
    ELSE LET n == Len(activeModalities)
             active == SumWeights(activeModalities, w)
             total == w.text + w.audio + w.video
         IN IF total = 0 THEN NaNFraction
            ELSE LET c == Frac(n * total + 3 * active, 6 * total)
                 IN IF FracLess(c, MinConfidence) THEN MinConfidence ELSE c

\* mutant: >= threshold
Exceeds_Inclusive(a, b) == ~isNaN(a) /\ ~isNaN(b) /\ Abs(a - b) >= threshold

\* Math.abs(a - b) > threshold; a comparison with NaN is false
Exceeds(a, b) == ~isNaN(a) /\ ~isNaN(b) /\ Abs(a - b) > threshold

\* mutant: only readings next to each other in the array are compared
detectEmotionalConflict_AdjacentPairs(emotions) ==
    IF Len(emotions) < 2 THEN FALSE
    ELSE \E i \in 1..(Len(emotions) - 1) :
            \/ Exceeds(emotions[i].stress, emotions[i + 1].stress)
            \/ Exceeds(emotions[i].clarity, emotions[i + 1].clarity)
            \/ Exceeds(emotions[i].engagement, emotions[i + 1].engagement)

detectEmotionalConflict(emotions) ==
    IF Len(emotions) < 2 THEN FALSE
    ELSE \E i \in 1..(Len(emotions) - 1) : \E j \in (i + 1)..Len(emotions) :
            \/ Exceeds(emotions[i].stress, emotions[j].stress)
            \/ Exceeds(emotions[i].clarity, emotions[j].clarity)
            \/ Exceeds(emotions[i].engagement, emotions[j].engagement)

reliabilityOrder == <<"video", "audio", "text">>

InSeq(x, s) == \E i \in 1..Len(s) : s[i] = x

\* reliabilityOrder.filter(m => modalities.includes(m))
activeReliableModalities(modalities) ==
    SelectSeq(reliabilityOrder, LAMBDA m : InSeq(m, modalities))

\* mutant: the boost is divided among all active modalities, boost / length
adjustWeightsForConflict_DividesByLength(emotions, modalities, w) ==
    IF detectEmotionalConflict(emotions) /\ Len(activeReliableModalities(modalities)) > 0
    THEN LET primaryModality == activeReliableModalities(modalities)[1]
             reduction == boost \div Len(modalities)
         IN [m \in Modalities |->
                IF ~InSeq(m, modalities) THEN w[m]
                ELSE IF m = primaryModality THEN w[m] + boost
                ELSE w[m] - reduction]
    ELSE w

\* Works on a copy of the stored weights.  A conflict needs two readings, so
\* the divisor modalities.length - 1 is 1 or 2 and the reduction is exact.
adjustWeightsForConflict(emotions, modalities, w) ==
    IF detectEmotionalConflict(emotions) /\ Len(activeReliableModalities(modalities)) > 0
    THEN LET primaryModality == activeReliableModalities(modalities)[1]
             reduction == boost \div (Len(modalities) - 1)
         IN [m \in Modalities |->
                IF ~InSeq(m, modalities) THEN w[m]
                ELSE IF m = primaryModality THEN w[m] + boost
                ELSE w[m] - reduction]
    ELSE w

\* Number(v) || 50: NaN and 0 are falsy
NumberOr50(v) == IF isNaN(v) \/ v = 0 THEN NeutralMetric ELSE v

RECURSIVE WeightedSum(_, _, _, _)
WeightedSum(field, emotions, modalities, w) ==
    IF emotions = <<>> THEN 0
    ELSE NumberOr50(Head(emotions)[field]) * w[Head(modalities)]
         + WeightedSum(field, Tail(emotions), Tail(modalities), w)

\* analyzeIntegratedEmotions from line 132 on: the fusion of the active
\* readings.  threw = TRUE stands for the Error raised at line 134.
FuseActive(emotionalStates, w) ==
    LET activeModalities == Keys(emotionalStates)
        emotions == [i \in 1..Len(emotionalStates) |-> emotionalStates[i].value]
    IN IF ~validateEmotions(emotions) THEN [threw |-> TRUE]
       ELSE LET adjustedWeights == adjustWeightsForConflict(emotions, activeModalities, w)
                totalWeight == SumWeights(activeModalities, adjustedWeights)
                safeTotalWeight == IF totalWeight > 0 THEN totalWeight ELSE SafeTotalWeight
                integrated(field) ==
                    RoundDiv(WeightedSum(field, emotions, activeModalities, adjustedWeights),
                             safeTotalWeight)
            IN [threw |-> FALSE,
                value |-> [emotionalState |-> [stress |-> integrated("stress"),
                                               clarity |-> integrated("clarity"),
                                               engagement |-> integrated("engagement")],
                           confidence |-> calculateConfidence(activeModalities, w),
                           activeModalities |-> activeModalities]]

\* mutant: the check for an empty array of emotions is missing
analyzeIntegratedEmotions_NoEmptyCheck(emotionalStates, w) ==
    FuseActive(emotionalStates, w)

analyzeIntegratedEmotions(emotionalStates, w) ==
    IF Len(emotionalStates) = 0 THEN [threw |-> FALSE, value |-> DefaultAnalysis]
    ELSE FuseActive(emotionalStates, w)

\* mutant: adjustWeightsForConflict works on this.modalityWeights itself
WeightsAfterAnalysis_NoCopy(emotionalStates, w) ==
    IF Len(emotionalStates) = 0 THEN w
    ELSE adjustWeightsForConflict([i \in 1..Len(emotionalStates) |-> emotionalStates[i].value],
                                  Keys(emotionalStates), w)

\* this.modalityWeights after a fusion: adjustWeightsForConflict changed a copy
WeightsAfterAnalysis(emotionalStates, w) == w

\* mutant: { ...defaults, ...newWeights }
MergeWeights_OntoDefaults(w, newWeights) ==
    [m \in Modalities |-> IF m \in DOMAIN newWeights THEN newWeights[m] ELSE DefaultWeights[m]]

\* { ...this.modalityWeights, ...newWeights }
MergeWeights(w, newWeights) ==
    [m \in Modalities |-> IF m \in DOMAIN newWeights THEN newWeights[m] ELSE w[m]]

-----------------------------------------------------------------------------
(* The inference back-ends *)

\* analyzeTextClarity(text) * 100 as the fraction num/den:
\* lengthScore * 0.5 + varietyScore * 0.3 + punctuationScore * 0.2
analyzeTextClarity(text) ==
    LET n == text.words
        lengthScore200 == Min(n, 10) * Min(20, 40 - n)     \* lengthScore * 200
    IN [num |-> n * lengthScore200 + 120 * text.unique
                  + (IF text.punctuation THEN 16 * n ELSE 0),
        den |-> 4 * n]

\* analyzeTextEngagement(text) * 100 as the fraction num/den
analyzeTextEngagement(text) ==
    LET n == text.words
        lengthScore150 == Min(n, 5) * Min(30, 60 - n)      \* lengthScore * 150
    IN [num |-> 20 * Min(text.marks, 3) * 35 * n
                  + 30 * Min(10 * text.unique, 7 * n) * 15
                  + 2 * lengthScore150 * 7 * n
                  + 15 * Min(text.pronouns, 2) * 105 * n,
        den |-> 105 * n]

\* The stress of TensorflowService.analyzeText before rounding, as num/den:
\* min((1 - sentiment) * 70 + (1 - confidence) * 30, 100), with
\* sentiment = positive / (positive + negative) || 0.5 and
\* confidence = min(total / words * 2, 1), total = positive + negative || 1
textStress(text) ==
    LET n == text.words
        sum == text.positive + text.negative
        total == IF sum = 0 THEN 1 ELSE sum
        \* 1 - sentiment = lowNum / lowDen (0 / sum and 0 / 0 are falsy: 0.5)
        lowNum == IF text.positive = 0 THEN 1 ELSE text.negative
        lowDen == IF text.positive = 0 THEN 2 ELSE sum
        doubt == Max(0, n - 2 * total)                     \* (1 - confidence) * n
        num == 70 * lowNum * n + 30 * doubt * lowDen
        den == lowDen * n
    IN IF num > 100 * den THEN [num |-> 100, den |-> 1] ELSE [num |-> num, den |-> den]

\* TensorflowService.analyzeText: threw = TRUE stands for the rejection
\* (the service is not initialized, or text has no toLowerCase)
tensorflowAnalyzeText(text) ==
    IF ~text.isString THEN [threw |-> TRUE]
    ELSE [threw |-> FALSE,
          value |-> [stress |-> RoundDiv(textStress(text).num, textStress(text).den),
                     clarity |-> RoundDiv(analyzeTextClarity(text).num,
                                          analyzeTextClarity(text).den),
                     engagement |-> RoundDiv(analyzeTextEngagement(text).num,
                                             analyzeTextEngagement(text).den)]]

Fields == {"stress", "clarity", "engagement"}

\* AudioAnalysisService.analyzeAudio
audioBaselineValues == [stress |-> 45, clarity |-> 60, engagement |-> 58]
maxStressIncrease == 15

\* mutant: one ratio for the stress, whatever the direction
blendRatio_Symmetric(field, percentage, baseline) ==
    IF field = "stress" THEN 80
    ELSE IF field = "clarity" THEN 75 ELSE 70

\* blendRatio in hundredths
blendRatio(field, percentage, baseline) ==
    IF field = "stress" THEN (IF percentage > baseline THEN 60 ELSE 80)
    ELSE IF field = "clarity" THEN 75 ELSE 70

\* blended * 100: percentage * blendRatio + baseline * (1 - blendRatio)
blended(field, percentage) ==
    LET baseline == audioBaselineValues[field]
        ratio == blendRatio(field, percentage, baseline)
    IN percentage * ratio + baseline * (100 - ratio)

\* mutant: no ceiling on the blended stress
normalizedValue_NoStressCeiling(field, percentage) ==
    Max(0, Min(100, RoundDiv(blended(field, percentage), 100)))

\* one element of normalizedValues, for a finite prediction
normalizedValue(field, percentage) ==
    LET previousStress == audioBaselineValues.stress
    IN IF /\ field = "stress"
          /\ blended(field, percentage) > (previousStress + maxStressIncrease) * 100
       THEN previousStress + maxStressIncrease
       ELSE Max(0, Min(100, RoundDiv(blended(field, percentage), 100)))

audioServiceAnalyzeAudio(audioBuffer) ==
    IF audioBuffer.byteLength = 0 THEN audioBaselineValues
    ELSE IF \E f \in Fields : ~isFinite(audioBuffer.prediction[f]) THEN audioBaselineValues
    ELSE [f \in Fields |-> normalizedValue(f, audioBuffer.prediction[f])]

\* VideoAnalysisService.analyzeFrame
videoBaselineValues == [stress |-> 55, clarity |-> 54, engagement |-> 58]

analyzeFrame(frameData) ==
    IF \E f \in Fields : \/ ~isFinite(frameData.prediction[f])
                         \/ frameData.prediction[f] < 0
    THEN videoBaselineValues
    ELSE [f \in Fields |->
            Max(0, Min(100, RoundDiv(7 * frameData.prediction[f]
                                       + 3 * videoBaselineValues[f], 10)))]

-----------------------------------------------------------------------------
(* EmotionAnalysisService: the slot table *)

\* updateFromRedux's repair of one field
ClampOr50(v) == IF isNaN(v) THEN NeutralMetric ELSE Min(100, Max(0, v))

validState(state) ==
    [stress |-> ClampOr50(state.stress), clarity |-> ClampOr50(state.clarity),
     engagement |-> ClampOr50(state.engagement)]

\* getCurrentAnalysis's repair of the fused result
NaNTo50(v) == IF isNaN(v) THEN NeutralMetric ELSE v

getCurrentAnalysis(emotionalStates, w) ==
    IF Len(emotionalStates) = 0 THEN DefaultAnalysis
    ELSE LET analysis == analyzeIntegratedEmotions(emotionalStates, w)
         IN IF analysis.threw THEN DefaultAnalysis
            ELSE [emotionalState |->
                      [stress |-> NaNTo50(analysis.value.emotionalState.stress),
                       clarity |-> NaNTo50(analysis.value.emotionalState.clarity),
                       engagement |-> NaNTo50(analysis.value.emotionalState.engagement)],
                  confidence |-> IF analysis.value.confidence = NaNFraction
                                 THEN Frac(0, 1) ELSE analysis.value.confidence,
                  activeModalities |-> analysis.value.activeModalities]

\* ret is the last call and what it returned; for a clearModalityState it
\* notes whether the key existed, for a getCurrentAnalysis which call came
\* before it
CallOf(r) == IF r.op = "clearModalityState" THEN r ELSE [op |-> r.op]

\* no call is suspended
NoCalls == [m \in Modalities |-> <<>>]

\* communicationSlice's initialState (mode and emotionalStates)
defaultEmotionalState == NeutralState
initialState ==
    [mode |-> "text",
     emotionalStates |-> [m \in Modalities |-> defaultEmotionalState]]

\* The static fields of the two service classes.  initializationPromise is
\* "null" or the state of the promise it holds; awaiting names the caller of
\* getInstance that is suspended at its await ("none", "initialize" for the
\* call EmotionAnalysisService.initialize makes, "client"); audioCall is the
\* state of that call of AudioAnalysisService.getInstance by initialize.
NoInstances ==
    [emotion |-> [instance |-> FALSE, initializationPromise |-> "null",
                  awaiting |-> "none", initializeCalls |-> 0, audioCall |-> "none"],
     audio |-> [instance |-> FALSE, initializationPromise |-> "null",
                awaiting |-> "none", initializeModelCalls |-> 0,
                modelInitialized |-> FALSE]]

\* every service initialized, every getInstance call returned
ReadyInstances ==
    [emotion |-> [instance |-> TRUE, initializationPromise |-> "fulfilled",
                  awaiting |-> "none", initializeCalls |-> 1, audioCall |-> "resolved"],
     audio |-> [instance |-> TRUE, initializationPromise |-> "fulfilled",
                awaiting |-> "none", initializeModelCalls |-> 1,
                modelInitialized |-> TRUE]]

\* the first getInstance of EmotionAnalysisService is suspended: the audio
\* service is ready, initialize still waits for the others
InitializingInstances ==
    [ReadyInstances EXCEPT !.emotion.initializationPromise = "pending",
                           !.emotion.awaiting = "client"]

\* AudioChat before a recording: audioState.isRecording, duration and
\* timeRemaining, the MediaRecorder's state, the duration interval, the
\* seconds since startRecording, the audioState.isRecording that the closures
\* of startRecording's render see, and whether a stopRecording is suspended
IdleRecorder ==
    [isRecording |-> FALSE, duration |-> 0, timeRemaining |-> 30,
     state |-> "inactive", durationInterval |-> FALSE,
     elapsed |-> 0, closureIsRecording |-> FALSE, stopping |-> FALSE]

\* FaceAnalysisService before a detection: lastExpressions is null
NoExpressions == [detected |-> FALSE]

\* no handler of a chat component is running, nothing was sent or recorded
NoHandlers == [suspended |-> <<>>, messages |-> 0, chunks |-> 0]

Init ==
    /\ currentEmotionalStates = <<>>
    /\ modalityWeights = DefaultWeights
    /\ ret = [op |-> "new"]
    /\ inflight = NoCalls
    /\ store = initialState
    /\ initialized = TRUE
    /\ singletons = ReadyInstances
    /\ handlers = NoHandlers
    /\ recorder = IdleRecorder
    /\ face = NoExpressions

\* updateCurrentState(mode, state): write the slot, then fuse the table.
\* The method is private; state is what analyzeText, analyzeAudio or
\* analyzeVideo pass on from their back-end, here any reading of the pool.
UpdateCurrentState(mode, state) ==
    /\ currentEmotionalStates' = SetKey(currentEmotionalStates, mode, state)
    /\ modalityWeights' = WeightsAfterAnalysis(currentEmotionalStates', modalityWeights)
    /\ ret' = [op |-> "updateCurrentState",
               result |-> analyzeIntegratedEmotions(currentEmotionalStates', modalityWeights)]
    /\ UNCHANGED <<inflight, store, initialized, singletons, handlers, recorder, face>>

UpdateFromRedux(mode, state) ==
    /\ currentEmotionalStates' = SetKey(currentEmotionalStates, mode, validState(state))
    /\ ret' = [op |-> "updateFromRedux"]
    /\ UNCHANGED <<modalityWeights, inflight, store, initialized, singletons, handlers, recorder, face>>

ClearModalityState(mode) ==
    /\ currentEmotionalStates' = DeleteKey(currentEmotionalStates, mode)
    /\ ret' = [op |-> "clearModalityState", removed |-> HasKey(currentEmotionalStates, mode)]
    /\ UNCHANGED <<modalityWeights, inflight, store, initialized, singletons, handlers, recorder, face>>

GetCurrentAnalysis ==
    /\ ret' = [op |-> "getCurrentAnalysis",
               analysis |-> getCurrentAnalysis(currentEmotionalStates, modalityWeights),
               after |-> CallOf(ret)]
    /\ modalityWeights' = WeightsAfterAnalysis(currentEmotionalStates, modalityWeights)
    /\ UNCHANGED <<currentEmotionalStates, inflight, store, initialized, singletons, handlers, recorder, face>>

UpdateModalityWeights(newWeights) ==
    /\ modalityWeights' = MergeWeights(modalityWeights, newWeights)
    /\ ret' = [op |-> "updateModalityWeights"]
    /\ UNCHANGED <<currentEmotionalStates, inflight, store, initialized, singletons, handlers, recorder, face>>

PartialWeights == UNION {[keys -> WeightValues] : keys \in SUBSET Modalities}

Next ==
    \/ \E mode \in Modalities, state \in Readings : UpdateCurrentState(mode, state)
    \/ \E mode \in Modalities, state \in Readings : UpdateFromRedux(mode, state)
    \/ \E mode \in Modalities : ClearModalityState(mode)
    \/ GetCurrentAnalysis
    \/ \E newWeights \in PartialWeights : UpdateModalityWeights(newWeights)

Spec == Init /\ [][Next]_vars

-----------------------------------------------------------------------------
(* The asynchronous analyses.  analyzeText, analyzeAudio and analyzeVideo    *)
(* run up to their await of the back-end, are suspended there while other   *)
(* calls and handlers run, and resume in any order; the code from the       *)
(* resumption to the return runs without another await.                     *)

\* EmotionAnalysisService.analyzeAudio's baseline
baselineValues == [stress |-> 55, clarity |-> 54, engagement |-> 58]

\* Math.round(value * 0.7 + baseline * 0.3), or the baseline for an invalid value
validateMetric(value, baseline) ==
    IF ~IsNumberType(value) \/ isNaN(value) \/ value < 0 \/ value > 100 THEN baseline
    ELSE RoundDiv(7 * value + 3 * baseline, 10)

audioValidatedState(analysis) ==
    [stress |-> validateMetric(analysis.stress, baselineValues.stress),
     clarity |-> validateMetric(analysis.clarity, baselineValues.clarity),
     engagement |-> validateMetric(analysis.engagement, baselineValues.engagement)]

\* mutant: the table is fused before the reading is written
updateCurrentState_FusesBeforeWrite(table, mode, state, w) ==
    analyzeIntegratedEmotions(table, w)

\* what updateCurrentState(mode, state) returns: the fusion of the table
\* after this.currentEmotionalStates[mode] = state
updateCurrentState(table, mode, state, w) ==
    analyzeIntegratedEmotions(SetKey(table, mode, state), w)

RemoveAt(seq, i) == SubSeq(seq, 1, i - 1) \o SubSeq(seq, i + 1, Len(seq))

\* the calls of a modality that are suspended, and how many calls are
Suspended(mode) == 1..Len(inflight[mode])
NumSuspended == Len(inflight.text) + Len(inflight.audio) + Len(inflight.video)

\* the call before this one was a call of op that recorded its reading while
\* a call of the same modality started before it was still suspended
Overtaken(r, op) ==
    r.op = op /\ r.settled # "pending" /\ r.recorded /\ r.overtook

\* EmotionAnalysisService.initialize resolves: the three services are set
Initialize ==
    /\ ~initialized
    /\ singletons.emotion.initializationPromise = "pending"
    /\ singletons.emotion.audioCall = "resolved"
    /\ initialized' = TRUE
    /\ singletons' = [singletons EXCEPT !.emotion.initializationPromise = "fulfilled"]
    /\ ret' = [op |-> "initialize"]
    /\ UNCHANGED <<currentEmotionalStates, modalityWeights, inflight, store,
                   handlers, recorder, face>>

\* analyzeText(text) up to its await
AnalyzeText(text) ==
    /\ IF ~initialized
       THEN /\ ret' = [op |-> "analyzeText", settled |-> "rejected", recorded |-> FALSE,
                       resumed |-> FALSE]
            /\ UNCHANGED inflight
       ELSE /\ NumSuspended < MaxInFlight
            /\ inflight' = [inflight EXCEPT !.text = Append(@, text)]
            /\ ret' = [op |-> "analyzeText", settled |-> "pending"]
    /\ UNCHANGED <<currentEmotionalStates, modalityWeights, store, initialized, singletons, handlers, recorder, face>>

\* analyzeText from the resumption on: the i-th suspended call resumes
ResumeAnalyzeText(i) ==
    /\ i \in Suspended("text")
    /\ inflight' = [inflight EXCEPT !.text = RemoveAt(@, i)]
    /\ LET analysis == tensorflowAnalyzeText(inflight.text[i])
       IN IF analysis.threw
          THEN /\ ret' = [op |-> "analyzeText", settled |-> "rejected", recorded |-> FALSE,
                          resumed |-> TRUE]
               /\ UNCHANGED <<currentEmotionalStates, modalityWeights>>
          ELSE LET integrated == updateCurrentState(currentEmotionalStates, "text",
                                                    analysis.value, modalityWeights)
               IN /\ currentEmotionalStates'
                        = SetKey(currentEmotionalStates, "text", analysis.value)
                  /\ modalityWeights'
                        = WeightsAfterAnalysis(currentEmotionalStates', modalityWeights)
                  /\ ret' = [op |-> "analyzeText",
                             settled |-> IF integrated.threw THEN "rejected" ELSE "resolved",
                             recorded |-> TRUE, resumed |-> TRUE,
                             analysis |-> analysis.value, integrated |-> integrated,
                             overtook |-> \E j \in Suspended("text") : j < i,
                             overwrote |-> /\ HasKey(currentEmotionalStates, "text")
                                           /\ Get(currentEmotionalStates, "text") # analysis.value,
                             overtaken |-> Overtaken(ret, "analyzeText")]
    /\ UNCHANGED <<store, initialized, singletons, handlers, recorder, face>>

\* analyzeAudio(audioBuffer) up to its await, or to its early return
AnalyzeAudio(audioBuffer) ==
    /\ IF ~initialized \/ audioBuffer.byteLength < 100
       THEN /\ ret' = [op |-> "analyzeAudio", settled |-> "resolved", recorded |-> FALSE,
                       resumed |-> FALSE, value |-> baselineValues]
            /\ UNCHANGED inflight
       ELSE /\ NumSuspended < MaxInFlight
            /\ inflight' = [inflight EXCEPT !.audio = Append(@, audioBuffer)]
            /\ ret' = [op |-> "analyzeAudio", settled |-> "pending"]
    /\ UNCHANGED <<currentEmotionalStates, modalityWeights, store, initialized, singletons, handlers, recorder, face>>

\* analyzeAudio from the resumption on
ResumeAnalyzeAudio(i) ==
    /\ i \in Suspended("audio")
    /\ inflight' = [inflight EXCEPT !.audio = RemoveAt(@, i)]
    /\ LET analysis == audioServiceAnalyzeAudio(inflight.audio[i])
           validatedState == audioValidatedState(analysis)
       IN IF /\ validatedState.stress = 0 /\ validatedState.clarity = 0
             /\ validatedState.engagement = 0
          THEN /\ ret' = [op |-> "analyzeAudio", settled |-> "resolved", recorded |-> FALSE,
                          resumed |-> TRUE, value |-> baselineValues]
               /\ UNCHANGED <<currentEmotionalStates, modalityWeights>>
          ELSE LET integrated == updateCurrentState(currentEmotionalStates, "audio",
                                                    validatedState, modalityWeights)
               IN /\ currentEmotionalStates'
                        = SetKey(currentEmotionalStates, "audio", validatedState)
                  /\ modalityWeights'
                        = WeightsAfterAnalysis(currentEmotionalStates', modalityWeights)
                  /\ ret' = [op |-> "analyzeAudio", settled |-> "resolved",
                             recorded |-> TRUE, resumed |-> TRUE,
                             backend |-> analysis, analysis |-> validatedState,
                             integrated |-> integrated,
                             value |-> IF integrated.threw THEN baselineValues
                                       ELSE integrated.value.emotionalState,
                             overtook |-> \E j \in Suspended("audio") : j < i,
                             overwrote |-> /\ HasKey(currentEmotionalStates, "audio")
                                           /\ Get(currentEmotionalStates, "audio") # validatedState,
                             overtaken |-> Overtaken(ret, "analyzeAudio")]
    /\ UNCHANGED <<store, initialized, singletons, handlers, recorder, face>>

\* analyzeVideo(frameData) up to its await
AnalyzeVideo(frameData) ==
    /\ IF ~initialized
       THEN /\ ret' = [op |-> "analyzeVideo", settled |-> "rejected", recorded |-> FALSE,
                       resumed |-> FALSE]
            /\ UNCHANGED inflight
       ELSE /\ NumSuspended < MaxInFlight
            /\ inflight' = [inflight EXCEPT !.video = Append(@, frameData)]
            /\ ret' = [op |-> "analyzeVideo", settled |-> "pending"]
    /\ UNCHANGED <<currentEmotionalStates, modalityWeights, store, initialized, singletons, handlers, recorder, face>>

\* analyzeVideo from the resumption on
ResumeAnalyzeVideo(i) ==
    /\ i \in Suspended("video")
    /\ inflight' = [inflight EXCEPT !.video = RemoveAt(@, i)]
    /\ LET analysis == analyzeFrame(inflight.video[i])
           integrated == updateCurrentState(currentEmotionalStates, "video",
                                            analysis, modalityWeights)
       IN /\ currentEmotionalStates' = SetKey(currentEmotionalStates, "video", analysis)
          /\ modalityWeights'
                = WeightsAfterAnalysis(currentEmotionalStates', modalityWeights)
          /\ ret' = [op |-> "analyzeVideo",
                     settled |-> IF integrated.threw THEN "rejected" ELSE "resolved",
                     recorded |-> TRUE, resumed |-> TRUE,
                     analysis |-> analysis, integrated |-> integrated,
                     overtook |-> \E j \in Suspended("video") : j < i,
                     overwrote |-> /\ HasKey(currentEmotionalStates, "video")
                                   /\ Get(currentEmotionalStates, "video") # analysis,
                     overtaken |-> Overtaken(ret, "analyzeVideo")]
    /\ UNCHANGED <<store, initialized, singletons, handlers, recorder, face>>

\* the setMode reducer, dispatched by handleModeSelect and the chat components
SetMode(selectedMode) ==
    /\ store' = [store EXCEPT !.mode = selectedMode]
    /\ ret' = [op |-> "setMode", from |-> store.mode]
    /\ UNCHANGED <<currentEmotionalStates, modalityWeights, inflight, initialized, singletons, handlers, recorder, face>>

InitAsync ==
    /\ currentEmotionalStates = <<>>
    /\ modalityWeights = DefaultWeights
    /\ ret = [op |-> "new"]
    /\ inflight = NoCalls
    /\ store = initialState
    /\ initialized = FALSE
    /\ singletons = InitializingInstances
    /\ handlers = NoHandlers
    /\ recorder = IdleRecorder
    /\ face = NoExpressions

NextAsync ==
    \/ Initialize
    \/ \E text \in TextInputs : AnalyzeText(text)
    \/ \E i \in 1..MaxInFlight : ResumeAnalyzeText(i)
    \/ \E audioBuffer \in AudioInputs : AnalyzeAudio(audioBuffer)
    \/ \E i \in 1..MaxInFlight : ResumeAnalyzeAudio(i)
    \/ \E frameData \in VideoInputs : AnalyzeVideo(frameData)
    \/ \E i \in 1..MaxInFlight : ResumeAnalyzeVideo(i)
    \/ UpdateFromRedux("video", ReadingPool[1])   \* as the video chat calls it
    \/ \E mode \in Modalities : ClearModalityState(mode)
    \/ \E selectedMode \in Modalities : SetMode(selectedMode)

SpecAsync == InitAsync /\ [][NextAsync]_vars

-----------------------------------------------------------------------------
(* The back-ends taken alone: one audio or video analysis suspended at its   *)
(* await, for any prediction of the model, then its resumption               *)

\* the percentages a model predicts for stress: below 0, the sigmoid's range,
\* above 100
MinPercentage == 0 - 40
MaxPercentage == 160
NonFinite == {NaN, Infinity, 0 - Infinity}

PredictionGrid ==
    {[stress |-> s, clarity |-> 20, engagement |-> 90] :
        s \in (MinPercentage..MaxPercentage) \cup NonFinite}
      \cup {[stress |-> 50, clarity |-> c, engagement |-> e] :
                c \in {0 - 40, 100, NaN}, e \in {0, 160, Infinity}}

InitBackends ==
    /\ currentEmotionalStates = <<>>
    /\ modalityWeights = DefaultWeights
    /\ ret = [op |-> "new"]
    /\ \E p \in PredictionGrid :
          inflight \in { [NoCalls EXCEPT
                              !.audio = <<[byteLength |-> 4096, prediction |-> p]>>],
                         [NoCalls EXCEPT !.video = <<[prediction |-> p]>>] }
    /\ store = initialState
    /\ initialized = TRUE
    /\ singletons = ReadyInstances
    /\ handlers = NoHandlers
    /\ recorder = IdleRecorder
    /\ face = NoExpressions

NextBackends ==
    \/ ResumeAnalyzeAudio(1)
    \/ ResumeAnalyzeVideo(1)

SpecBackends == InitBackends /\ [][NextBackends]_vars

-----------------------------------------------------------------------------
(* The Redux store: the reducers of communicationSlice, and the debug       *)
(* panel's applyValues, which hands the same values to the reducer and to   *)
(* updateFromRedux                                                          *)

\* Values a component dispatches: out of range and infinite, not a number and
\* missing, valid
Payloads ==
    { [stress |-> 150, clarity |-> 0 - 5, engagement |-> Infinity],
      [stress |-> NaN, clarity |-> Undefined, engagement |-> 0 - Infinity],
      [stress |-> 73, clarity |-> 0, engagement |-> 100] }

\* 45 + Math.round(Math.random() * 10) for the three fields
RandomVariations ==
    { [stress |-> 45, clarity |-> 50, engagement |-> 55] }

\* the reducer's repair of one field
ClampOrDefault(v) ==
    IF ~isNaN(v) /\ isFinite(v) THEN Max(0, Min(100, v)) ELSE defaultEmotionalState.stress

\* updateEmotionalState's validatedState, random the variation it generates
\* when the validated values are the defaults
updateEmotionalState(payload, random) ==
    LET validatedState == [stress |-> ClampOrDefault(payload.stress),
                           clarity |-> ClampOrDefault(payload.clarity),
                           engagement |-> ClampOrDefault(payload.engagement)]
        hasRealData == validatedState # defaultEmotionalState
    IN IF hasRealData THEN validatedState ELSE random

UpdateEmotionalState(payload, random) ==
    /\ store' = [store EXCEPT !.emotionalStates[store.mode]
                                  = updateEmotionalState(payload, random)]
    /\ ret' = [op |-> "updateEmotionalState", payload |-> payload]
    /\ UNCHANGED <<currentEmotionalStates, modalityWeights, inflight, initialized, singletons, handlers, recorder, face>>

\* applyValues: dispatch(updateEmotionalState(values)), then
\* emotionService.updateFromRedux(mode, values)
ApplyValues(values, random) ==
    /\ store' = [store EXCEPT !.emotionalStates[store.mode]
                                  = updateEmotionalState(values, random)]
    /\ currentEmotionalStates'
          = SetKey(currentEmotionalStates, store.mode, validState(values))
    /\ ret' = [op |-> "applyValues", payload |-> values]
    /\ UNCHANGED <<modalityWeights, inflight, initialized, singletons, handlers, recorder, face>>

NextStore ==
    \/ \E selectedMode \in Modalities : SetMode(selectedMode)
    \/ \E payload \in Payloads, random \in RandomVariations :
          UpdateEmotionalState(payload, random)
    \/ \E values \in Payloads, random \in RandomVariations :
          ApplyValues(values, random)

SpecStore == Init /\ [][NextStore]_vars

-----------------------------------------------------------------------------
(* The singletons: getInstance of EmotionAnalysisService, which the page and *)
(* every chat component call on mount, getInstance of AudioAnalysisService, *)
(* called by initialize and by any other client, and the initializations    *)
(* they start                                                               *)

\* the other variables of the model, which the singletons leave alone
ServiceState == <<currentEmotionalStates, modalityWeights, inflight, store,
                  handlers, recorder, face>>

\* AudioAnalysisService.getInstance() up to its await or its return: the
\* static fields after it
audioGetInstance(audio, caller) ==
    IF ~audio.instance
    THEN [audio EXCEPT
            !.instance = TRUE,
            !.initializationPromise = IF @ = "null" THEN "pending" ELSE @,
            !.initializeModelCalls =
                IF audio.initializationPromise = "null" THEN @ + 1 ELSE @,
            !.awaiting = caller]
    ELSE audio

\* EmotionAnalysisService.getInstance() up to its await or its return.  The
\* first call creates the instance and runs initialize up to its await of
\* Promise.all, which calls AudioAnalysisService.getInstance().
GetInstance ==
    /\ IF ~singletons.emotion.instance
       THEN /\ singletons' =
                  [emotion |->
                      [singletons.emotion EXCEPT
                          !.instance = TRUE,
                          !.initializationPromise = IF @ = "null" THEN "pending" ELSE @,
                          !.initializeCalls =
                              IF singletons.emotion.initializationPromise = "null"
                              THEN @ + 1 ELSE @,
                          !.awaiting = "client",
                          !.audioCall = IF singletons.audio.instance THEN "resolved"
                                        ELSE "pending"],
                   audio |-> audioGetInstance(singletons.audio, "initialize")]
            /\ ret' = [op |-> "getInstance", settled |-> "pending"]
       ELSE /\ ret' = [op |-> "getInstance", settled |-> "resolved",
                       servicesSet |-> initialized,
                       initializationPromise |-> singletons.emotion.initializationPromise]
            /\ UNCHANGED singletons
    /\ UNCHANGED initialized
    /\ UNCHANGED ServiceState

\* initialize's catch: one of the three back-end getInstance calls rejected
InitializeThrows ==
    /\ singletons.emotion.initializationPromise = "pending"
    /\ singletons.emotion.audioCall # "pending"
    /\ singletons' = [singletons EXCEPT !.emotion.initializationPromise = "rejected"]
    /\ ret' = [op |-> "initialize", settled |-> "rejected"]
    /\ UNCHANGED initialized
    /\ UNCHANGED ServiceState

\* EmotionAnalysisService.getInstance() from its await on
ResumeGetInstance ==
    /\ singletons.emotion.awaiting = "client"
    /\ singletons.emotion.initializationPromise \in {"fulfilled", "rejected"}
    /\ singletons' = [singletons EXCEPT !.emotion.awaiting = "none"]
    /\ ret' = IF singletons.emotion.initializationPromise = "fulfilled"
              THEN [op |-> "getInstance", settled |-> "resolved",
                    servicesSet |-> initialized,
                    initializationPromise |-> singletons.emotion.initializationPromise]
              ELSE [op |-> "getInstance", settled |-> "rejected"]
    /\ UNCHANGED initialized
    /\ UNCHANGED ServiceState

\* AudioAnalysisService.getInstance() called by a client other than initialize
AudioGetInstance ==
    /\ IF ~singletons.audio.instance
       THEN /\ singletons' = [singletons EXCEPT !.audio = audioGetInstance(@, "client")]
            /\ ret' = [op |-> "audioGetInstance", settled |-> "pending"]
       ELSE /\ ret' = [op |-> "audioGetInstance", settled |-> "resolved",
                       caller |-> "client",
                       modelInitialized |-> singletons.audio.modelInitialized,
                       initializeModelCalls |-> singletons.audio.initializeModelCalls]
            /\ UNCHANGED singletons
    /\ UNCHANGED initialized
    /\ UNCHANGED ServiceState

\* AudioAnalysisService.initializeModel settles: the model is set, or the
\* catch resets it and throws
InitializeModel(ok) ==
    /\ singletons.audio.initializationPromise = "pending"
    /\ singletons' = [singletons EXCEPT
                         !.audio.initializationPromise = IF ok THEN "fulfilled" ELSE "rejected",
                         !.audio.modelInitialized = ok]
    /\ ret' = [op |-> "initializeModel", settled |-> IF ok THEN "resolved" ELSE "rejected"]
    /\ UNCHANGED initialized
    /\ UNCHANGED ServiceState

\* AudioAnalysisService.getInstance() from its await on: it returns the
\* instance, or its catch resets initializationPromise and rethrows
ResumeAudioGetInstance ==
    LET audio == singletons.audio
        ok == audio.initializationPromise = "fulfilled"
    IN /\ audio.awaiting # "none"
       /\ audio.initializationPromise \in {"fulfilled", "rejected"}
       /\ singletons' =
             [emotion |-> IF audio.awaiting = "initialize"
                          THEN [singletons.emotion EXCEPT
                                   !.audioCall = IF ok THEN "resolved" ELSE "rejected"]
                          ELSE singletons.emotion,
              audio |-> [audio EXCEPT
                            !.awaiting = "none",
                            !.initializationPromise = IF ok THEN @ ELSE "null"]]
       /\ ret' = IF ok
                 THEN [op |-> "audioGetInstance", settled |-> "resolved",
                       caller |-> audio.awaiting,
                       modelInitialized |-> audio.modelInitialized,
                       initializeModelCalls |-> audio.initializeModelCalls]
                 ELSE [op |-> "audioGetInstance", settled |-> "rejected",
                       caller |-> audio.awaiting]
       /\ UNCHANGED initialized
       /\ UNCHANGED ServiceState

InitSingletons ==
    /\ currentEmotionalStates = <<>>
    /\ modalityWeights = DefaultWeights
    /\ ret = [op |-> "new"]
    /\ inflight = NoCalls
    /\ store = initialState
    /\ initialized = FALSE
    /\ singletons = NoInstances
    /\ handlers = NoHandlers
    /\ recorder = IdleRecorder
    /\ face = NoExpressions

NextSingletons ==
    \/ GetInstance
    \/ Initialize
    \/ InitializeThrows
    \/ ResumeGetInstance
    \/ AudioGetInstance
    \/ \E ok \in BOOLEAN : InitializeModel(ok)
    \/ ResumeAudioGetInstance

SpecSingletons == InitSingletons /\ [][NextSingletons]_vars

-----------------------------------------------------------------------------
(* The chat components' handlers.  TextChat.handleSendMessage awaits        *)
(* analyzeText and then generateResponse before it dispatches               *)
(* updateEmotionalState; AudioChat's ondataavailable handler awaits         *)
(* analyzeAudio and dispatches the smoothed reading.  The page renders the  *)
(* component of the store's mode, so a handler starts while the store is in *)
(* its component's mode; the user may select another mode while it is       *)
(* suspended, which unmounts the component and leaves the handler running.  *)
(* handlers.suspended are the handlers at an await, `mounted` telling       *)
(* whether the component that started one is still the rendered one;        *)
(* handlers.messages and handlers.chunks count the messages sent and the    *)
(* chunks the recorder delivered.                                           *)

\* Messages sent and audio chunks delivered in one session
MaxMessages == 2
MaxChunks == 1

\* the messages TextChat sends: the input field's text
ChatMessages == {t \in TextInputs : t.isString}

\* Math.round(oldValue + (newValue - oldValue) * factor), factor in tenths
smoothValue(newValue, oldValue, factor) ==
    RoundDiv(10 * oldValue + (newValue - oldValue) * factor, 10)

smoothedAnalysis(analysis, lastEmotionalState) ==
    [stress |-> smoothValue(analysis.stress, lastEmotionalState.stress, 7),
     clarity |-> smoothValue(analysis.clarity, lastEmotionalState.clarity, 7),
     engagement |-> smoothValue(analysis.engagement, lastEmotionalState.engagement, 7)]

\* the component still rendered has a handler running (TextChat's isAnalyzing,
\* the recording's analysisInProgress)
Analyzing(component) ==
    \E i \in 1..Len(handlers.suspended) :
        handlers.suspended[i].component = component /\ handlers.suspended[i].mounted

\* handleModeSelect: dispatch(setMode(selectedMode)); the page renders the
\* component of the new mode in place of the one that was rendered
HandleModeSelect(selectedMode) ==
    /\ store' = [store EXCEPT !.mode = selectedMode]
    /\ handlers' = [handlers EXCEPT !.suspended =
          [i \in 1..Len(@) |-> [@[i] EXCEPT !.mounted = @ /\ selectedMode = store.mode]]]
    /\ ret' = [op |-> "setMode", from |-> store.mode]
    /\ UNCHANGED <<currentEmotionalStates, modalityWeights, inflight, initialized,
                   singletons, recorder, face>>

\* dispatch(updateEmotionalState(payload)) by the handler of a component:
\* the reducer writes the slot of the mode the store is in at the dispatch
DispatchUpdateEmotionalState(h, payload, random) ==
    /\ store' = [store EXCEPT !.emotionalStates[store.mode]
                                  = updateEmotionalState(payload, random)]
    /\ ret' = [op |-> "updateEmotionalState", payload |-> payload,
               component |-> h.component, startedFor |-> h.startedFor,
               wroteTo |-> store.mode, before |-> store.emotionalStates]

\* handleSendMessage up to its await of emotionService.analyzeText(message)
HandleSendMessage(message) ==
    /\ store.mode = "text"
    /\ initialized
    /\ handlers.messages < MaxMessages
    /\ ~Analyzing("TextChat")                           \* isAnalyzing
    /\ handlers' = [handlers EXCEPT
          !.messages = @ + 1,
          !.suspended = Append(@, [component |-> "TextChat", startedFor |-> "text",
                                   mounted |-> TRUE, awaiting |-> "analyzeText",
                                   message |-> message])]
    /\ ret' = [op |-> "handleSendMessage"]
    /\ UNCHANGED <<currentEmotionalStates, modalityWeights, inflight, store, initialized,
                   singletons, recorder, face>>

\* analyzeText resumes, records the reading and returns the fused state; the
\* handler goes on to its await of aiService.generateResponse, or to its
\* catch when analyzeText threw
MessageAnalyzed(i) ==
    /\ i \in 1..Len(handlers.suspended)
    /\ handlers.suspended[i].awaiting = "analyzeText"
    /\ LET analysis == tensorflowAnalyzeText(handlers.suspended[i].message)
           integrated == updateCurrentState(currentEmotionalStates, "text",
                                            analysis.value, modalityWeights)
       IN IF analysis.threw
          THEN /\ handlers' = [handlers EXCEPT !.suspended = RemoveAt(@, i)]
               /\ ret' = [op |-> "analyzeText", settled |-> "rejected"]
               /\ UNCHANGED <<currentEmotionalStates, modalityWeights>>
          ELSE /\ currentEmotionalStates'
                     = SetKey(currentEmotionalStates, "text", analysis.value)
               /\ modalityWeights'
                     = WeightsAfterAnalysis(currentEmotionalStates', modalityWeights)
               /\ IF integrated.threw
                  THEN /\ handlers' = [handlers EXCEPT !.suspended = RemoveAt(@, i)]
                       /\ ret' = [op |-> "analyzeText", settled |-> "rejected"]
                  ELSE /\ handlers' = [handlers EXCEPT !.suspended[i] =
                              [component |-> "TextChat", startedFor |-> "text",
                               mounted |-> @.mounted, awaiting |-> "generateResponse",
                               emotionalAnalysis |-> integrated.value.emotionalState]]
                       /\ ret' = [op |-> "analyzeText", settled |-> "resolved"]
    /\ UNCHANGED <<inflight, store, initialized, singletons, recorder, face>>

\* generateResponse resolves: dispatch(updateEmotionalState(emotionalAnalysis))
ResponseGenerated(i, random) ==
    /\ i \in 1..Len(handlers.suspended)
    /\ handlers.suspended[i].awaiting = "generateResponse"
    /\ DispatchUpdateEmotionalState(handlers.suspended[i], handlers.suspended[i].emotionalAnalysis, random)
    /\ handlers' = [handlers EXCEPT !.suspended = RemoveAt(@, i)]
    /\ UNCHANGED <<currentEmotionalStates, modalityWeights, inflight, initialized,
                   singletons, recorder, face>>

\* ondataavailable up to its await of emotionService.analyzeAudio(buffer);
\* lastEmotionalState is the audio slot the component rendered (the await of arrayBuffer() before
\* it is taken together with this step: nothing is read or written between)
OnDataAvailable(buffer) ==
    /\ store.mode = "audio"
    /\ initialized
    /\ handlers.chunks < MaxChunks
    /\ ~Analyzing("AudioChat")                          \* analysisInProgress
    /\ handlers' = [handlers EXCEPT
          !.chunks = @ + 1,
          !.suspended = Append(@, [component |-> "AudioChat", startedFor |-> "audio",
                                   mounted |-> TRUE, awaiting |-> "analyzeAudio",
                                   buffer |-> buffer,
                                   lastEmotionalState |-> store.emotionalStates.audio])]
    /\ ret' = [op |-> "ondataavailable"]
    /\ UNCHANGED <<currentEmotionalStates, modalityWeights, inflight, store, initialized,
                   singletons, recorder, face>>

\* analyzeAudio resolves (with the baseline for a short buffer, else after
\* recording the reading): dispatch(updateEmotionalState(smoothedAnalysis))
ChunkAnalyzed(i, random) ==
    /\ i \in 1..Len(handlers.suspended)
    /\ handlers.suspended[i].awaiting = "analyzeAudio"
    /\ LET h == handlers.suspended[i]
           analysis == audioServiceAnalyzeAudio(h.buffer)
           validatedState == audioValidatedState(analysis)
           integrated == updateCurrentState(currentEmotionalStates, "audio",
                                            validatedState, modalityWeights)
           recorded == /\ h.buffer.byteLength >= 100
                       /\ ~(/\ validatedState.stress = 0 /\ validatedState.clarity = 0
                            /\ validatedState.engagement = 0)
           value == IF ~recorded \/ integrated.threw THEN baselineValues
                    ELSE integrated.value.emotionalState
       IN /\ IF recorded
             THEN /\ currentEmotionalStates'
                        = SetKey(currentEmotionalStates, "audio", validatedState)
                  /\ modalityWeights'
                        = WeightsAfterAnalysis(currentEmotionalStates', modalityWeights)
             ELSE UNCHANGED <<currentEmotionalStates, modalityWeights>>
          /\ DispatchUpdateEmotionalState(h, smoothedAnalysis(value, h.lastEmotionalState),
                                          random)
    /\ handlers' = [handlers EXCEPT !.suspended = RemoveAt(@, i)]
    /\ UNCHANGED <<inflight, initialized, singletons, recorder, face>>

NextChat ==
    \/ \E selectedMode \in Modalities : HandleModeSelect(selectedMode)
    \/ \E message \in ChatMessages : HandleSendMessage(message)
    \/ \E i \in 1..Len(handlers.suspended) : MessageAnalyzed(i)
    \/ \E i \in 1..Len(handlers.suspended), random \in RandomVariations :
          ResponseGenerated(i, random)
    \/ \E buffer \in AudioInputs : OnDataAvailable(buffer)
    \/ \E i \in 1..Len(handlers.suspended), random \in RandomVariations :
          ChunkAnalyzed(i, random)

SpecChat == Init /\ [][NextChat]_vars

-----------------------------------------------------------------------------
(* The face analysis.  VideoChat.analyzeVideoFrame awaits                    *)
(* FaceAnalysisService.analyzeVideoFrame, which returns the mapping of the  *)
(* last expressions when it is throttled, the default state when the video  *)
(* is not available or no face is found, and else the mapping of the        *)
(* detected expressions; the handler dispatches the result and hands it to  *)
(* updateFromRedux('video').  `face` is lastExpressions.  Probabilities are *)
(* in hundredths, the sums the code hands to normalize in thousandths.      *)

ExpressionNames ==
    {"neutral", "happy", "sad", "angry", "fearful", "disgusted", "surprised"}

\* a face that shows one expression with probability 1
Fully(e) == [x \in ExpressionNames |-> IF x = e THEN 100 ELSE 0]

MixedExpressions ==
    [neutral |-> 40, happy |-> 30, sad |-> 5, angry |-> 15, fearful |-> 5,
     disgusted |-> 0, surprised |-> 5]

\* what detectSingleFace(...).withFaceExpressions() resolves to: a detection
\* with its expressions, or undefined when there is no face
Detections ==
    {[detected |-> TRUE, expressions |-> Fully(e)] : e \in ExpressionNames}
    \cup {[detected |-> TRUE, expressions |-> MixedExpressions], NoExpressions}

\* Math.min(100, Math.max(0, Math.round(value * 100))), value in thousandths
normalize(value) == Min(100, Max(0, RoundDiv(value, 10)))

\* the "+ 50" base level and the "1 -" of the code, in thousandths
BaseLevel == 50000
One == 1000

mapExpressionsToEmotionalState(expressions) ==
    [stress |-> normalize(5 * expressions.angry + 3 * expressions.fearful
                          + 2 * expressions.disgusted + BaseLevel),
     clarity |-> normalize(7 * expressions.neutral + (One - 3 * expressions.sad)
                           + BaseLevel),
     engagement |-> normalize(5 * expressions.happy + 3 * expressions.surprised
                              + (One - 2 * expressions.neutral) + BaseLevel)]

getDefaultEmotionalState == NeutralState

\* VideoChat.analyzeVideoFrame up to the await inside
\* faceService.analyzeVideoFrame, or to that call's early return (the face
\* service is initialized before VideoChat connects the camera)
AnalyzeVideoFrame(throttled, available) ==
    /\ store.mode = "video"
    /\ Len(handlers.suspended) < MaxInFlight
    /\ LET early == IF throttled
                    THEN IF face.detected
                         THEN mapExpressionsToEmotionalState(face.expressions)
                         ELSE getDefaultEmotionalState
                    ELSE getDefaultEmotionalState
       IN handlers' = [handlers EXCEPT !.suspended = Append(@,
             IF throttled \/ ~available
             THEN [component |-> "VideoChat", startedFor |-> "video", mounted |-> TRUE,
                   awaiting |-> "analyzeVideoFrame", emotionalState |-> early]
             ELSE [component |-> "VideoChat", startedFor |-> "video", mounted |-> TRUE,
                   awaiting |-> "detectSingleFace"])]
    /\ ret' = [op |-> "analyzeVideoFrame", settled |-> "pending"]
    /\ UNCHANGED <<currentEmotionalStates, modalityWeights, inflight, store, initialized,
                   singletons, recorder, face>>

\* the detection resolves (or the early return is delivered): lastExpressions
\* is set, the handler dispatches updateEmotionalState(emotionalState) and
\* calls emotionService.updateFromRedux('video', emotionalState)
FrameAnalyzed(i, detection, random) ==
    /\ i \in 1..Len(handlers.suspended)
    /\ handlers.suspended[i].component = "VideoChat"
    /\ LET h == handlers.suspended[i]
           detecting == h.awaiting = "detectSingleFace"
           emotionalState ==
               IF ~detecting THEN h.emotionalState
               ELSE IF detection.detected
                    THEN mapExpressionsToEmotionalState(detection.expressions)
                    ELSE getDefaultEmotionalState
       IN /\ detecting \/ detection = NoExpressions
          /\ face' = IF detecting /\ detection.detected THEN detection ELSE face
          /\ store' = [store EXCEPT !.emotionalStates[store.mode]
                                        = updateEmotionalState(emotionalState, random)]
          /\ currentEmotionalStates'
                = SetKey(currentEmotionalStates, "video", validState(emotionalState))
          /\ ret' = [op |-> "analyzeVideoFrame", settled |-> "resolved",
                     mapped |-> detecting /\ detection.detected,
                     detection |-> detection, emotionalState |-> emotionalState]
    /\ handlers' = [handlers EXCEPT !.suspended = RemoveAt(@, i)]
    /\ UNCHANGED <<modalityWeights, inflight, initialized, singletons, recorder>>

NextFace ==
    \/ \E selectedMode \in Modalities : HandleModeSelect(selectedMode)
    \/ \E throttled, available \in BOOLEAN : AnalyzeVideoFrame(throttled, available)
    \/ \E i \in 1..Len(handlers.suspended), detection \in Detections,
          random \in RandomVariations : FrameAnalyzed(i, detection, random)

SpecFace == Init /\ [][NextFace]_vars

-----------------------------------------------------------------------------
(* AudioChat's recording.  startRecording starts the MediaRecorder and a    *)
(* 100 ms interval that updates duration and timeRemaining and, when no     *)
(* time remains, clears itself and calls stopRecording.  The functions are  *)
(* those of the render in which startRecording was invoked: the             *)
(* audioState.isRecording they read is the one of that render.  Time is in  *)
(* seconds; an interval that is due fires before the next second passes.    *)

MAX_DURATION == 30

\* Seconds a recording is followed
MaxElapsed == 33

\* stopRecording as called through the closure of a render in which
\* audioState.isRecording was isRecording: it returns at once when that is
\* false, else stops the MediaRecorder (whose onstop clears the interval) and
\* is suspended until the final chunk arrived
stopRecording(r, isRecording) ==
    IF ~isRecording \/ r.stopping THEN r
    ELSE [r EXCEPT !.state = "inactive", !.durationInterval = FALSE, !.stopping = TRUE]

\* the button shows "start": startRecording of the current render, taken from
\* its cleanupRecording and setupAudioRecording to the installed handlers
StartRecording ==
    /\ ~recorder.isRecording
    /\ ~recorder.stopping
    /\ recorder' = [isRecording |-> TRUE, duration |-> 0, timeRemaining |-> MAX_DURATION,
                    state |-> "recording", durationInterval |-> TRUE, elapsed |-> 0,
                    closureIsRecording |-> recorder.isRecording, stopping |-> FALSE]
    /\ ret' = [op |-> "startRecording"]
    /\ UNCHANGED <<currentEmotionalStates, modalityWeights, inflight, store, initialized,
                   singletons, handlers, face>>

\* a second passes while the MediaRecorder records
Tick ==
    /\ recorder.state = "recording"
    /\ recorder.elapsed < MaxElapsed
    /\ ~(recorder.durationInterval /\ recorder.elapsed >= MAX_DURATION)
    /\ recorder' = [recorder EXCEPT !.elapsed = @ + 1]
    /\ UNCHANGED <<currentEmotionalStates, modalityWeights, ret, inflight, store,
                   initialized, singletons, handlers, face>>

\* the duration interval's callback
DurationTimerFires ==
    /\ recorder.durationInterval
    /\ LET remainingTime == Max(0, MAX_DURATION - recorder.elapsed)
           shown == [recorder EXCEPT !.duration = recorder.elapsed,
                                     !.timeRemaining = remainingTime]
       IN /\ recorder' = IF remainingTime <= 0
                         THEN stopRecording([shown EXCEPT !.durationInterval = FALSE],
                                            recorder.closureIsRecording)
                         ELSE shown
          /\ ret' = [op |-> "durationInterval", expired |-> remainingTime <= 0]
    /\ UNCHANGED <<currentEmotionalStates, modalityWeights, inflight, store, initialized,
                   singletons, handlers, face>>

\* the button shows "stop": stopRecording of the current render, up to its
\* await of the final chunk
StopRecording ==
    /\ recorder.isRecording
    /\ ~recorder.stopping
    /\ recorder' = stopRecording(recorder, recorder.isRecording)
    /\ ret' = [op |-> "stopRecording"]
    /\ UNCHANGED <<currentEmotionalStates, modalityWeights, inflight, store, initialized,
                   singletons, handlers, face>>

\* stopRecording resumes and runs to the end of its cleanupRecording
CleanupRecording ==
    /\ recorder.stopping
    /\ recorder' = [recorder EXCEPT !.isRecording = FALSE, !.duration = 0,
                                    !.timeRemaining = 30, !.state = "inactive",
                                    !.durationInterval = FALSE, !.stopping = FALSE]
    /\ ret' = [op |-> "cleanupRecording"]
    /\ UNCHANGED <<currentEmotionalStates, modalityWeights, inflight, store, initialized,
                   singletons, handlers, face>>

\* AudioChat is the rendered component
InitRecording ==
    /\ currentEmotionalStates = <<>>
    /\ modalityWeights = DefaultWeights
    /\ ret = [op |-> "new"]
    /\ inflight = NoCalls
    /\ store = [initialState EXCEPT !.mode = "audio"]
    /\ initialized = TRUE
    /\ singletons = ReadyInstances
    /\ handlers = NoHandlers
    /\ recorder = IdleRecorder
    /\ face = NoExpressions

NextRecording ==
    \/ StartRecording
    \/ Tick
    \/ DurationTimerFires
    \/ StopRecording
    \/ CleanupRecording

SpecRecording == InitRecording /\ [][NextRecording]_vars

-----------------------------------------------------------------------------
(* The fusion taken alone: any slot table of valid readings, any of a few   *)
(* non-negative weight settings, then analyzeIntegratedEmotions or          *)
(* getCurrentAnalysis on it                                                 *)

FusionWeights ==
    { DefaultWeights,
      [text |-> 0, audio |-> 0, video |-> 0],
      [text |-> 0, audio |-> 35, video |-> 35],
      [text |-> 10, audio |-> 10, video |-> 10],
      [text |-> 60, audio |-> 0, video |-> 100] }

\* the sequences of keys an object can have: distinct modalities, any order
KeyOrders ==
    {ks \in UNION {[1..n -> Modalities] : n \in 0..3} :
        \A i, j \in 1..Len(ks) : i # j => ks[i] # ks[j]}

SlotTables ==
    UNION {{[i \in 1..Len(ks) |-> [key |-> ks[i], value |-> vs[i]]] :
                vs \in [1..Len(ks) -> FusionReadings]} : ks \in KeyOrders}

InitFusion ==
    /\ currentEmotionalStates \in SlotTables
    /\ modalityWeights \in FusionWeights
    /\ ret = [op |-> "new"]
    /\ inflight = NoCalls
    /\ store = initialState
    /\ initialized = TRUE
    /\ singletons = ReadyInstances
    /\ handlers = NoHandlers
    /\ recorder = IdleRecorder
    /\ face = NoExpressions

AnalyzeIntegratedEmotions ==
    /\ ret' = [op |-> "analyzeIntegratedEmotions",
               result |-> analyzeIntegratedEmotions(currentEmotionalStates, modalityWeights)]
    /\ modalityWeights' = WeightsAfterAnalysis(currentEmotionalStates, modalityWeights)
    /\ UNCHANGED <<currentEmotionalStates, inflight, store, initialized, singletons, handlers, recorder, face>>

NextFusion ==
    \/ AnalyzeIntegratedEmotions
    \/ GetCurrentAnalysis

SpecFusion == InitFusion /\ [][NextFusion]_vars

-----------------------------------------------------------------------------
(* Properties *)

NeutralAnalysis ==
    [emotionalState |-> [stress |-> 50, clarity |-> 50, engagement |-> 50],
     confidence |-> [num |-> 0, den |-> 1],
     activeModalities |-> <<>>]

\* C1: with no modality present, analyzeIntegratedEmotions and
\* getCurrentAnalysis both return {50, 50, 50}, confidence 0 and no active
\* modality; so does a getCurrentAnalysis called on a table that clearing
\* has emptied.
C1_EmptyTableIsNeutral ==
    /\ currentEmotionalStates = <<>> =>
          /\ analyzeIntegratedEmotions(currentEmotionalStates, modalityWeights)
                = [threw |-> FALSE, value |-> NeutralAnalysis]
          /\ getCurrentAnalysis(currentEmotionalStates, modalityWeights) = NeutralAnalysis
    /\ (ret.op = "getCurrentAnalysis" /\ currentEmotionalStates = <<>>) =>
          ret.analysis = NeutralAnalysis

\* a getCurrentAnalysis right after the clearModalityState that removed the
\* last present modality
C1_Witness ==
    /\ currentEmotionalStates = <<>>
    /\ ret.op = "getCurrentAnalysis"
    /\ ret.after = [op |-> "clearModalityState", removed |-> TRUE]

InRange(v) == ~isNaN(v) /\ 0 <= v /\ v <= 100

ValidReading(r) == InRange(r.stress) /\ InRange(r.clarity) /\ InRange(r.engagement)

AllReadingsValid(table) == \A i \in 1..Len(table) : ValidReading(table[i].value)

NonNegative(w) == \A m \in Modalities : w[m] >= 0

\* C2: when every present reading has its fields in [0,100] and the stored
\* weights are non-negative, every field of the emotionalState that
\* analyzeIntegratedEmotions returns is a number in [0,100].
C2_FusedStateInRange ==
    (/\ ret.op = "analyzeIntegratedEmotions"
     /\ AllReadingsValid(currentEmotionalStates)
     /\ NonNegative(modalityWeights))
    => /\ ~ret.result.threw
       /\ ValidReading(ret.result.value.emotionalState)

\* the same under the default weights 0.3 / 0.35 / 0.35 only
C2_FusedStateInRangeDefaultWeights ==
    (/\ ret.op = "analyzeIntegratedEmotions"
     /\ AllReadingsValid(currentEmotionalStates)
     /\ modalityWeights = DefaultWeights)
    => /\ ~ret.result.threw
       /\ ValidReading(ret.result.value.emotionalState)

Emotions(table) == [i \in 1..Len(table) |-> table[i].value]

\* C3: with text, audio and video all holding the same valid reading X the
\* fusion under the default weights returns X unchanged, with confidence 1.
C3_EqualReadingsReturnedUnchanged ==
    (/\ ret.op = "analyzeIntegratedEmotions"
     /\ modalityWeights = DefaultWeights
     /\ Len(currentEmotionalStates) = 3
     /\ AllReadingsValid(currentEmotionalStates)
     /\ \A i \in 1..3 : currentEmotionalStates[i].value = currentEmotionalStates[1].value)
    => /\ ~ret.result.threw
       /\ ret.result.value.emotionalState = currentEmotionalStates[1].value
       /\ ret.result.value.confidence = [num |-> 1, den |-> 1]

\* the largest of the three differences between two readings
MaxDifference(r1, r2) ==
    CHOOSE d \in {Abs(r1[f] - r2[f]) : f \in Fields} :
        \A f \in Fields : Abs(r1[f] - r2[f]) <= d

\* some pair of readings differs by strictly more than 30 in some metric
SomePairDiffersByMoreThan30(table) ==
    \E i, j \in 1..Len(table) :
        i # j /\ MaxDifference(table[i].value, table[j].value) > 30

\* C4: the active readings are in conflict exactly when some pair of them
\* differs by more than 30 in some metric: a largest difference of 31 is a
\* conflict, one of 30 is not, and fewer than two readings never conflict.
C4_ConflictBoundaryExclusive ==
    ret.op = "analyzeIntegratedEmotions" =>
        LET table == currentEmotionalStates
            conflict == detectEmotionalConflict(Emotions(table))
        IN /\ conflict <=> SomePairDiffersByMoreThan30(table)
           /\ Len(table) < 2 => ~conflict
           /\ (Len(table) = 2 /\ MaxDifference(table[1].value, table[2].value) = 31)
                 => conflict
           /\ (Len(table) = 2 /\ MaxDifference(table[1].value, table[2].value) = 30)
                 => ~conflict

\* two active readings whose largest difference is exactly 31, fused
C4_Witness ==
    /\ ret.op = "analyzeIntegratedEmotions"
    /\ Len(currentEmotionalStates) = 2
    /\ MaxDifference(currentEmotionalStates[1].value, currentEmotionalStates[2].value) = 31
    /\ detectEmotionalConflict(Emotions(currentEmotionalStates))

\* the most reliable of the active modalities: video, else audio, else text
MostReliable(table) ==
    IF HasKey(table, "video") THEN "video"
    ELSE IF HasKey(table, "audio") THEN "audio" ELSE "text"

\* C5: in a conflict the most reliable active modality (video > audio > text)
\* is weighted base + 0.2 and every other active one base - 0.2/(n-1); with no
\* conflict every weight is the configured one.  With video and text in
\* conflict video's weight rises and text's falls.
C5_RebalancingFollowsReliability ==
    ret.op = "analyzeIntegratedEmotions" =>
        LET table == currentEmotionalStates
            n == Len(table)
            used == adjustWeightsForConflict(Emotions(table), Keys(table), modalityWeights)
        IN /\ SomePairDiffersByMoreThan30(table) =>
                \A m \in Modalities :
                    HasKey(table, m) =>
                        IF m = MostReliable(table)
                        THEN used[m] = modalityWeights[m] + 20
                        ELSE (n - 1) * (modalityWeights[m] - used[m]) = 20
           /\ ~SomePairDiffersByMoreThan30(table) => used = modalityWeights
           /\ (SomePairDiffersByMoreThan30(table) /\ n = 2
                 /\ HasKey(table, "video") /\ HasKey(table, "text"))
                 => /\ used.video > modalityWeights.video
                    /\ used.text < modalityWeights.text

\* video and text active and in conflict, fused
C5_Witness ==
    /\ ret.op = "analyzeIntegratedEmotions"
    /\ Len(currentEmotionalStates) = 2
    /\ HasKey(currentEmotionalStates, "video")
    /\ HasKey(currentEmotionalStates, "text")
    /\ SomePairDiffersByMoreThan30(currentEmotionalStates)
    /\ modalityWeights = DefaultWeights

\* C6: after the text reading {80, 40, 90} and then the audio reading
\* {20, 90, 30} are recorded, video absent, the fused stress is closer to 20
\* than to 80; and whenever text and audio are the only active modalities and
\* conflict, every fused metric is at least as close to the audio value as to
\* the text value (default weights).
C6_ConflictLeansToAudio ==
    (/\ ret.op = "updateCurrentState"
     /\ modalityWeights = DefaultWeights
     /\ Len(currentEmotionalStates) = 2
     /\ HasKey(currentEmotionalStates, "text")
     /\ HasKey(currentEmotionalStates, "audio")
     /\ AllReadingsValid(currentEmotionalStates)
     /\ SomePairDiffersByMoreThan30(currentEmotionalStates))
    => LET text == Get(currentEmotionalStates, "text")
           audio == Get(currentEmotionalStates, "audio")
           fused == ret.result.value.emotionalState
       IN /\ ~ret.result.threw
          /\ \A f \in Fields : Abs(fused[f] - audio[f]) <= Abs(fused[f] - text[f])
          /\ (/\ text = [stress |-> 80, clarity |-> 40, engagement |-> 90]
              /\ audio = [stress |-> 20, clarity |-> 90, engagement |-> 30])
             => Abs(fused.stress - 20) < Abs(fused.stress - 80)

\* the scenario alone: text {80, 40, 90} recorded into an empty table, then
\* audio {20, 90, 30}: a conflict, audio weighted 0.55 and text 0.1, stress 29
C6_ScenarioLeansToAudio ==
    LET table == SetKey(SetKey(<<>>, "text",
                               [stress |-> 80, clarity |-> 40, engagement |-> 90]),
                        "audio", [stress |-> 20, clarity |-> 90, engagement |-> 30])
        used == adjustWeightsForConflict(Emotions(table), Keys(table), DefaultWeights)
        fused == analyzeIntegratedEmotions(table, DefaultWeights).value.emotionalState
    IN /\ detectEmotionalConflict(Emotions(table))
       /\ used.audio = 55 /\ used.text = 10
       /\ fused.stress = 29
       /\ Abs(fused.stress - 20) < Abs(fused.stress - 80)

\* C7: the confidence of a fusion result is a number in [0,1], and at least
\* 0.3 when a modality is active, under any non-negative stored weights.
ConfidenceInBounds(c, active) ==
    /\ c # NaNFraction
    /\ c.den > 0
    /\ 0 <= c.num
    /\ c.num <= c.den
    /\ active > 0 => 10 * c.num >= 3 * c.den

C7_ConfidenceInBounds ==
    NonNegative(modalityWeights) =>
        /\ ret.op = "analyzeIntegratedEmotions" =>
              ConfidenceInBounds(ret.result.value.confidence, Len(currentEmotionalStates))
        /\ ret.op = "getCurrentAnalysis" =>
              ConfidenceInBounds(ret.analysis.confidence, Len(currentEmotionalStates))

\* the same when the stored weights are not all zero
C7_ConfidenceInBoundsPositiveTotal ==
    (/\ NonNegative(modalityWeights)
     /\ modalityWeights.text + modalityWeights.audio + modalityWeights.video > 0) =>
        /\ ret.op = "analyzeIntegratedEmotions" =>
              ConfidenceInBounds(ret.result.value.confidence, Len(currentEmotionalStates))
        /\ ret.op = "getCurrentAnalysis" =>
              ConfidenceInBounds(ret.analysis.confidence, Len(currentEmotionalStates))

\* C8: a getCurrentAnalysis that directly follows a getCurrentAnalysis (no
\* recording, clearing or weight update between them) returns the same
\* emotionalState, confidence and activeModalities.
C8_GetCurrentAnalysisIdempotent ==
    [][(ret.op = "getCurrentAnalysis" /\ ret'.op = "getCurrentAnalysis" /\ GetCurrentAnalysis)
          => ret'.analysis = ret.analysis]_vars

\* a second getCurrentAnalysis in a row, on conflicting readings
C8_Witness ==
    /\ ret.op = "getCurrentAnalysis"
    /\ ret.after.op = "getCurrentAnalysis"
    /\ Len(currentEmotionalStates) >= 2
    /\ detectEmotionalConflict(Emotions(currentEmotionalStates))

\* the table that holds the entries of table other than mode's, recorded
\* one after the other into an empty object
RECURSIVE RecordedAlone(_, _)
RecordedAlone(table, mode) ==
    IF table = <<>> THEN <<>>
    ELSE LET rest == RecordedAlone(SubSeq(table, 1, Len(table) - 1), mode)
             last == table[Len(table)]
         IN IF last.key = mode THEN rest
            ELSE rest \o <<[key |-> last.key, value |-> last.value]>>

\* C9: clearModalityState(m) makes slot m absent and leaves the other slots'
\* readings as they were; the fusion that follows lists exactly the other
\* present modalities and equals the fusion of their readings alone.
C9_ClearRemovesOnlyThatSlot ==
    [][ret'.op = "clearModalityState" =>
        \A m \in Modalities :
          ClearModalityState(m) =>
             /\ ~HasKey(currentEmotionalStates', m)
             /\ \A o \in Modalities \ {m} :
                   /\ HasKey(currentEmotionalStates', o) = HasKey(currentEmotionalStates, o)
                   /\ HasKey(currentEmotionalStates, o) =>
                         Get(currentEmotionalStates', o) = Get(currentEmotionalStates, o)
             /\ LET next == getCurrentAnalysis(currentEmotionalStates', modalityWeights')
                IN /\ next.activeModalities
                         = SelectSeq(Keys(currentEmotionalStates), LAMBDA k : k # m)
                   /\ next = getCurrentAnalysis(RecordedAlone(currentEmotionalStates, m),
                                                modalityWeights)
                   /\ analyzeIntegratedEmotions(currentEmotionalStates', modalityWeights')
                         = analyzeIntegratedEmotions(
                              RecordedAlone(currentEmotionalStates, m), modalityWeights)]_vars

\* a getCurrentAnalysis right after a clearModalityState removed one of three
\* present modalities
C9_Witness ==
    /\ ret.op = "getCurrentAnalysis"
    /\ ret.after = [op |-> "clearModalityState", removed |-> TRUE]
    /\ Len(currentEmotionalStates) = 2
    /\ ret.analysis.activeModalities = Keys(currentEmotionalStates)

\* the modalities whose slot is present
Present(table) == {table[i].key : i \in 1..Len(table)}

\* the slots other than m's are present after the step exactly if they were
OthersKeepPresence(m) ==
    \A o \in Modalities \ {m} :
        HasKey(currentEmotionalStates', o) = HasKey(currentEmotionalStates, o)

\* C10: every slot is Absent or Present.  All are Absent at construction; a
\* slot becomes Present only by updateCurrentState or updateFromRedux for its
\* own modality; a recording stores the new reading (for updateFromRedux the
\* repaired one) whatever the slot held; a slot becomes Absent only by
\* clearModalityState for its own modality; and an operation on one modality
\* leaves the presence of the other slots unchanged.
C10_SlotLifecycle ==
    /\ [](ret.op = "new" => currentEmotionalStates = <<>>)
    /\ [](\A i, j \in 1..Len(currentEmotionalStates) :
             /\ currentEmotionalStates[i].key \in Modalities
             /\ i # j => currentEmotionalStates[i].key # currentEmotionalStates[j].key)
    /\ [][/\ \A m \in Present(currentEmotionalStates') \ Present(currentEmotionalStates) :
                \E state \in Readings :
                   UpdateCurrentState(m, state) \/ UpdateFromRedux(m, state)
          /\ \A m \in Present(currentEmotionalStates) \ Present(currentEmotionalStates') :
                ClearModalityState(m)
          /\ ret'.op = "updateCurrentState" =>
                \A m \in Modalities, state \in Readings :
                   UpdateCurrentState(m, state) =>
                      /\ HasKey(currentEmotionalStates', m)
                      /\ Get(currentEmotionalStates', m) = state
                      /\ OthersKeepPresence(m)
          /\ ret'.op = "updateFromRedux" =>
                \A m \in Modalities, state \in Readings :
                   UpdateFromRedux(m, state) =>
                      /\ HasKey(currentEmotionalStates', m)
                      /\ Get(currentEmotionalStates', m) = validState(state)
                      /\ OthersKeepPresence(m)
          /\ ret'.op = "clearModalityState" =>
                \A m \in Modalities :
                   ClearModalityState(m) => OthersKeepPresence(m)]_vars

\* an updateCurrentState has written a slot while the two others were present
\* with readings that differ from the one written
C10_Witness ==
    /\ ret.op = "updateCurrentState"
    /\ Len(currentEmotionalStates) = 3
    /\ \E i \in 1..3 : \A j \in (1..3) \ {i} :
          currentEmotionalStates[i].value # currentEmotionalStates[j].value

AnalysisOps == {"analyzeText", "analyzeAudio", "analyzeVideo"}

ModalityOf(op) ==
    IF op = "analyzeText" THEN "text" ELSE IF op = "analyzeAudio" THEN "audio" ELSE "video"

\* the last call was an analysis that has settled (resolved or rejected)
AnalysisSettled == ret.op \in AnalysisOps /\ ret.settled # "pending"

\* C11: whatever the back-ends return, every present slot holds a reading
\* whose three fields are finite numbers in [0,100].
C11_PresentSlotsValid ==
    \A i \in 1..Len(currentEmotionalStates) :
        ValidReading(currentEmotionalStates[i].value)

\* the slots of the audio and video modalities, validated before they are
\* stored, do hold valid readings; only the text slot can hold an invalid one
C11_AudioVideoSlotsValid ==
    \A i \in 1..Len(currentEmotionalStates) :
        currentEmotionalStates[i].key # "text" =>
            ValidReading(currentEmotionalStates[i].value)

\* what the validator is to store for a field: the field if it is a finite
\* number in [0,100], else 50
Repaired(v) ==
    IF IsNumberType(v) /\ isFinite(v) /\ 0 <= v /\ v <= 100 THEN v ELSE 50

\* C12: updateFromRedux and the updateEmotionalState reducer store every
\* field that is no finite number in [0,100] as 50 and every valid field
\* unchanged.
C12_InvalidFieldsBecome50 ==
    /\ ret.op \in {"updateEmotionalState", "applyValues"} =>
          \A f \in Fields :
              store.emotionalStates[store.mode][f] = Repaired(ret.payload[f])
    /\ ret.op = "applyValues" =>
          /\ HasKey(currentEmotionalStates, store.mode)
          /\ \A f \in Fields :
                Get(currentEmotionalStates, store.mode)[f] = Repaired(ret.payload[f])

\* C13: an analysis that records its reading r for m returns the fusion of
\* the table as it stands right after r was written to slot m; the result
\* lists m, and the modalities it lists are those present at that moment,
\* whichever other calls are suspended or have resumed before.
C13_RecordAndFuseIndivisible ==
    (AnalysisSettled /\ ret.recorded) =>
        /\ ~ret.integrated.threw
        /\ InSeq(ModalityOf(ret.op), ret.integrated.value.activeModalities)
        /\ ret.integrated.value.activeModalities = Keys(currentEmotionalStates)
        /\ ret.integrated
              = analyzeIntegratedEmotions(currentEmotionalStates, modalityWeights)

\* a text analysis has recorded its reading next to another modality's
\* while a video analysis is still suspended
C13_Witness ==
    /\ AnalysisSettled /\ ret.recorded
    /\ ret.op = "analyzeText"
    /\ Len(inflight.video) > 0
    /\ HasKey(currentEmotionalStates, "audio")

\* C14: the slot of a modality holds the reading of the analysis of that
\* modality that resumed last, also when that analysis was started before
\* one that resumed earlier.
C14_LastCompletionWins ==
    (AnalysisSettled /\ ret.recorded) =>
        /\ HasKey(currentEmotionalStates, ModalityOf(ret.op))
        /\ Get(currentEmotionalStates, ModalityOf(ret.op)) = ret.analysis

\* two text analyses were suspended; the one started second resumed first,
\* then the one started first, whose different reading the slot now holds
C14_Witness ==
    /\ AnalysisSettled /\ ret.recorded
    /\ ret.op = "analyzeText"
    /\ ret.overtaken /\ ret.overwrote
    /\ Suspended("text") = {}
    /\ Get(currentEmotionalStates, "text") = ret.analysis

\* C15: when the mode changes away from m, slot m is absent afterwards; and
\* an analysis of m that was suspended during the change and resumes right
\* after it leaves slot m absent.
C15_ModeSwitchClearsSlot ==
    /\ []((ret.op = "setMode" /\ ret.from # store.mode)
            => ~HasKey(currentEmotionalStates, ret.from))
    /\ [][(/\ ret.op = "setMode" /\ ret.from # store.mode
           /\ ret'.op \in AnalysisOps /\ ret'.settled # "pending" /\ ret'.resumed
           /\ ModalityOf(ret'.op) = ret.from)
          => ~HasKey(currentEmotionalStates', ret.from)]_vars

\* C16: every analysis that settles resolves with a value; one that records
\* nothing leaves the table as it was, one that records changes no other
\* modality's slot, and getCurrentAnalysis afterwards lists every present
\* modality.
C16_BackendFailureContained ==
    /\ [](AnalysisSettled => ret.settled = "resolved")
    /\ [][(ret'.op \in AnalysisOps /\ ret'.settled # "pending") =>
            /\ ~ret'.recorded => currentEmotionalStates' = currentEmotionalStates
            /\ \A o \in Modalities \ {ModalityOf(ret'.op)} :
                  /\ HasKey(currentEmotionalStates', o) = HasKey(currentEmotionalStates, o)
                  /\ HasKey(currentEmotionalStates, o) =>
                        Get(currentEmotionalStates', o) = Get(currentEmotionalStates, o)
            /\ getCurrentAnalysis(currentEmotionalStates', modalityWeights').activeModalities
                  = Keys(currentEmotionalStates')]_vars

\* the containment half of C16 alone: a settling analysis, rejected or not,
\* changes no other modality's slot and leaves the fusion of the others intact
C16_OtherModalitiesUnaffected ==
    [][(ret'.op \in AnalysisOps /\ ret'.settled # "pending") =>
          /\ ~ret'.recorded => currentEmotionalStates' = currentEmotionalStates
          /\ \A o \in Modalities \ {ModalityOf(ret'.op)} :
                /\ HasKey(currentEmotionalStates', o) = HasKey(currentEmotionalStates, o)
                /\ HasKey(currentEmotionalStates, o) =>
                      Get(currentEmotionalStates', o) = Get(currentEmotionalStates, o)
          /\ getCurrentAnalysis(currentEmotionalStates', modalityWeights').activeModalities
                = Keys(currentEmotionalStates')]_vars

\* analyzeAudio, whose catch blocks return the baseline, always resolves
C16_AudioAlwaysResolves ==
    (AnalysisSettled /\ ret.op = "analyzeAudio") => ret.settled = "resolved"

\* C17: whatever the model predicts, the stress AudioAnalysisService
\* returns is at most its baseline 45 plus 15, and the stress that
\* analyzeAudio records in the audio slot is at most 70.
C17_AudioStressCeiling ==
    (ret.op = "analyzeAudio" /\ ret.settled # "pending" /\ ret.recorded) =>
        /\ ret.backend.stress <= 45 + 15
        /\ Get(currentEmotionalStates, "audio").stress <= 70

\* the back-end has returned the ceiling 60, recorded as 59 after blending
C17_Witness ==
    /\ ret.op = "analyzeAudio" /\ ret.settled # "pending" /\ ret.recorded
    /\ ret.backend.stress = 60
    /\ Get(currentEmotionalStates, "audio").stress = 59

\* C18: whatever the model predicts, the stress analyzeFrame returns is at
\* most its baseline 55 plus 15.
C18_VideoStressCeiling ==
    (ret.op = "analyzeVideo" /\ ret.settled # "pending" /\ ret.recorded) =>
        ret.analysis.stress <= 55 + 15

\* C19: updateModalityWeights(partial) sets the weights partial names to
\* partial's values and keeps the others; it changes no slot; and a fusion
\* uses the weights as they stand since the last update.
C19_UpdateWeightsMergesPartial ==
    /\ [][ret'.op = "updateModalityWeights" =>
            /\ currentEmotionalStates' = currentEmotionalStates
            /\ \A partial \in PartialWeights :
                  UpdateModalityWeights(partial) =>
                     \A m \in Modalities :
                        modalityWeights'[m] = IF m \in DOMAIN partial THEN partial[m]
                                              ELSE modalityWeights[m]]_vars
    /\ [](ret.op = "getCurrentAnalysis" =>
             ret.analysis = getCurrentAnalysis(currentEmotionalStates, modalityWeights))
    /\ [](ret.op = "updateCurrentState" =>
             ret.result = analyzeIntegratedEmotions(currentEmotionalStates, modalityWeights))

\* a getCurrentAnalysis of two readings right after an update that has left
\* text's weight as it was while audio's is 0
C19_Witness ==
    /\ ret.op = "getCurrentAnalysis"
    /\ ret.after.op = "updateModalityWeights"
    /\ modalityWeights.audio = 0
    /\ modalityWeights.text = DefaultWeights.text
    /\ Len(currentEmotionalStates) >= 2

\* C20: getCurrentAnalysis changes neither the table nor the weights, the
\* fusion inside updateCurrentState changes no weight, the weights change
\* only by updateModalityWeights, and fusing the table again gives the
\* result just returned.
C20_FusionReadsOnly ==
    /\ [][ret'.op = "getCurrentAnalysis" =>
            /\ currentEmotionalStates' = currentEmotionalStates
            /\ modalityWeights' = modalityWeights]_vars
    /\ [][modalityWeights' # modalityWeights => ret'.op = "updateModalityWeights"]_vars
    /\ [](ret.op = "getCurrentAnalysis" =>
             getCurrentAnalysis(currentEmotionalStates, modalityWeights) = ret.analysis)
    /\ [](ret.op = "updateCurrentState" =>
             /\ analyzeIntegratedEmotions(currentEmotionalStates, modalityWeights)
                   = ret.result
             /\ ~ret.result.threw =>
                   getCurrentAnalysis(currentEmotionalStates, modalityWeights).emotionalState
                      = [f \in Fields |->
                            NaNTo50(ret.result.value.emotionalState[f])])

\* a getCurrentAnalysis of three conflicting readings right after the
\* updateCurrentState that fused them, the weights still the defaults
C20_Witness ==
    /\ ret.op = "getCurrentAnalysis"
    /\ ret.after.op = "updateCurrentState"
    /\ Len(currentEmotionalStates) = 3
    /\ detectEmotionalConflict(Emotions(currentEmotionalStates))
    /\ adjustWeightsForConflict(Emotions(currentEmotionalStates),
                                Keys(currentEmotionalStates), modalityWeights)
          # modalityWeights
    /\ modalityWeights = DefaultWeights

\* the sum over the readings of the stored value itself times the weight
RECURSIVE StoredWeightedSum(_, _, _, _)
StoredWeightedSum(field, emotions, modalities, w) ==
    IF emotions = <<>> THEN 0
    ELSE Head(emotions)[field] * w[Head(modalities)]
         + StoredWeightedSum(field, Tail(emotions), Tail(modalities), w)

\* round(sum of value x weight / sum of weight) over the active modalities,
\* with the rebalanced weights, a zero sum of weights replaced by 1
WeightedMean(field, table, w) ==
    LET used == adjustWeightsForConflict(Emotions(table), Keys(table), w)
        total == SumWeights(Keys(table), used)
    IN RoundDiv(StoredWeightedSum(field, Emotions(table), Keys(table), used),
                IF total = 0 THEN 100 ELSE total)

\* C21: with a modality active, valid readings and non-negative weights,
\* every fused metric is the rounded weighted mean of the stored values
\* (a stored 0 counted as 0), and with a zero sum of weights the division
\* is by 1 and the result is a number.
C21_WeightedMeanOfStoredValues ==
    (/\ ret.op = "analyzeIntegratedEmotions"
     /\ Len(currentEmotionalStates) > 0
     /\ AllReadingsValid(currentEmotionalStates)
     /\ NonNegative(modalityWeights))
    => /\ ~ret.result.threw
       /\ \A f \in Fields :
             /\ ~isNaN(ret.result.value.emotionalState[f])
             /\ ret.result.value.emotionalState[f]
                   = WeightedMean(f, currentEmotionalStates, modalityWeights)

NoZeroField(table) ==
    \A i \in 1..Len(table) : \A f \in Fields : table[i].value[f] # 0

\* the same for readings none of whose fields is 0, which the code does fuse
\* as the claim says, a zero sum of weights included
C21_WeightedMeanOfNonZeroValues ==
    (/\ ret.op = "analyzeIntegratedEmotions"
     /\ Len(currentEmotionalStates) > 0
     /\ AllReadingsValid(currentEmotionalStates)
     /\ NoZeroField(currentEmotionalStates)
     /\ NonNegative(modalityWeights))
    => /\ ~ret.result.threw
       /\ \A f \in Fields :
             /\ ~isNaN(ret.result.value.emotionalState[f])
             /\ ret.result.value.emotionalState[f]
                   = WeightedMean(f, currentEmotionalStates, modalityWeights)

\* the confidence the specification defines: max(0.3, (|A|/3 + sum of the
\* active rebalanced weights / sum of the three configured weights) / 2)
ConfidenceOfRebalanced(table, w) ==
    LET n == Len(table)
        used == adjustWeightsForConflict(Emotions(table), Keys(table), w)
        active == SumWeights(Keys(table), used)
        total == w.text + w.audio + w.video
    IN IF n = 0 THEN Frac(0, 1)
       ELSE IF total = 0 THEN NaNFraction
       ELSE LET c == Frac(n * total + 3 * active, 6 * total)
            IN IF FracLess(c, MinConfidence) THEN MinConfidence ELSE c

C23_StressBlendAsymmetric ==
    [][(ret'.op = "analyzeAudio" /\ ret'.settled # "pending" /\ ret'.recorded
        /\ Len(inflight.audio) > 0
        /\ \A f \in Fields : isFinite(inflight.audio[1].prediction[f]))
       => LET raw == inflight.audio[1].prediction
              base == audioBaselineValues
              d == raw.stress - base.stress
              below == [raw EXCEPT !.stress = base.stress - d]
              mirrored == [byteLength |-> inflight.audio[1].byteLength,
                           prediction |-> below]
          IN /\ raw.stress > base.stress =>
                   /\ blended("stress", raw.stress) = 60 * raw.stress + 40 * base.stress
                   /\ blended("stress", raw.stress) - 100 * base.stress
                         < 100 * base.stress - blended("stress", below.stress)
                   /\ ret'.backend.stress - base.stress
                         <= base.stress - audioServiceAnalyzeAudio(mirrored).stress
             /\ raw.stress <= base.stress =>
                   blended("stress", raw.stress) = 80 * raw.stress + 20 * base.stress
             /\ blended("clarity", raw.clarity) = 75 * raw.clarity + 25 * base.clarity
             /\ blended("engagement", raw.engagement)
                   = 70 * raw.engagement + 30 * base.engagement
             /\ ret'.backend = [f \in Fields |-> normalizedValue(f, raw[f])]]_vars

\* the back-end has returned 51 for a predicted stress of 55, ten above the
\* baseline 45: a rise of 6, where a stress ten below falls by 8
C23_Witness ==
    /\ ret.op = "analyzeAudio" /\ ret.settled # "pending" /\ ret.recorded
    /\ ret.backend.stress = 51
    /\ normalizedValue("stress", 55) = 51
    /\ normalizedValue("stress", 35) = 37

\* an audio analysis has resumed on a prediction with a NaN or infinite value
MalformedAudioResumed ==
    /\ ret'.op = "analyzeAudio" /\ ret'.settled # "pending" /\ ret'.resumed
    /\ Len(inflight.audio) > 0
    /\ \E f \in Fields : ~isFinite(inflight.audio[1].prediction[f])

\* C24: when the model's prediction is malformed the analysis resolves, the
\* audio back-end returns its baseline triple, and the reading recorded in
\* the audio slot is a baseline triple itself, not a blend of it.
C24_MalformedPredictionGivesBaseline ==
    [][MalformedAudioResumed =>
          /\ ret'.settled = "resolved"
          /\ ret'.recorded
          /\ ret'.backend = audioBaselineValues
          /\ Get(currentEmotionalStates', "audio")
                \in {audioBaselineValues, baselineValues}]_vars

\* the back-end's half of C24 alone: nothing raises and AudioAnalysisService
\* returns its baseline {45, 60, 58} unblended
C24_BackendReturnsBaseline ==
    [][MalformedAudioResumed =>
          /\ ret'.settled = "resolved"
          /\ ret'.recorded
          /\ ret'.backend = audioBaselineValues]_vars

\* C25: every getInstance call of EmotionAnalysisService that resolves
\* returns the instance after initialize has completed, its services set,
\* never while the initialization is in flight; initialize runs at most once.
C25_GetInstanceReturnsInitialized ==
    /\ (ret.op = "getInstance" /\ ret.settled = "resolved") =>
          /\ ret.servicesSet
          /\ ret.initializationPromise = "fulfilled"
    /\ singletons.emotion.initializeCalls <= 1

\* the part of C25 that holds: initialize runs at most once, and the call
\* that started it returns the instance only after it has completed
C25_InitializeRunsOnce ==
    /\ singletons.emotion.initializeCalls <= 1
    /\ [][(ResumeGetInstance /\ ret'.settled = "resolved") => ret'.servicesSet]_vars

\* the initialization of the audio model has failed and nothing has
\* succeeded since
AudioInitializationFailed ==
    /\ singletons.audio.instance
    /\ ~singletons.audio.modelInitialized
    /\ singletons.audio.initializationPromise \in {"rejected", "null"}

\* C26: a getInstance of AudioAnalysisService called after the initialization
\* failed starts the initialization again, and resolves only with an
\* instance whose model is initialized.
C26_GetInstanceRetriesAfterFailure ==
    [][(AudioInitializationFailed /\ AudioGetInstance) =>
          \/ /\ ret'.settled = "pending"
             /\ singletons'.audio.initializationPromise = "pending"
             /\ singletons'.audio.initializeModelCalls
                   = singletons.audio.initializeModelCalls + 1
          \/ /\ ret'.settled = "resolved"
             /\ ret'.modelInitialized]_vars

\* the part of C26 that holds: the failure path resets initializationPromise
\* and the call that awaited the failed initialization rejects
C26_FailedCallRejects ==
    [][(ResumeAudioGetInstance /\ singletons.audio.initializationPromise = "rejected") =>
          /\ ret'.settled = "rejected"
          /\ singletons'.audio.initializationPromise = "null"]_vars

-----------------------------------------------------------------------------
\* C27: the result of an analysis started for modality m is written by
\* updateEmotionalState to emotionalStates[m], whatever setMode did while the
\* analysis was in flight
C27_ReadingStoredInOwnSlot ==
    (ret.op = "updateEmotionalState") => (ret.wroteTo = ret.startedFor)

\* C27, second half: updateEmotionalState leaves the two slots other than the
\* one it writes unchanged
C27_OtherSlotsUnchanged ==
    (ret.op = "updateEmotionalState") =>
        \A m \in Modalities \ {ret.wroteTo} : store.emotionalStates[m] = ret.before[m]

\* a text reading was dispatched after the store had gone to another mode
C27_WrittenToOtherSlot ==
    /\ ret.op = "updateEmotionalState"
    /\ ret.startedFor = "text"
    /\ ret.wroteTo = "audio"

-----------------------------------------------------------------------------
\* the orders in which n keys can have been inserted
Orderings(n) == {p \in [1..n -> 1..n] : \A i, j \in 1..n : i # j => p[i] # p[j]}

\* the same slots and readings, inserted in the order p
Reordered(table, p) == [i \in 1..Len(table) |-> table[p[i]]]

-----------------------------------------------------------------------------
\* C29: the reading depends on the expression: a fully angry face gets a
\* higher stress than a fully neutral face, and a fully happy face a higher
\* engagement than a fully neutral one
C29_ReadingDependsOnExpression ==
    (ret.op = "analyzeVideoFrame" /\ ret.settled = "resolved" /\ ret.mapped) =>
        LET neutral == mapExpressionsToEmotionalState(Fully("neutral"))
        IN /\ ret.detection.expressions = Fully("angry")
                 => ret.emotionalState.stress > neutral.stress
           /\ ret.detection.expressions = Fully("happy")
                 => ret.emotionalState.engagement > neutral.engagement

\* C29, last part: each value of a mapped reading is within 0..100
C29_ReadingNormalized ==
    (ret.op = "analyzeVideoFrame" /\ ret.settled = "resolved" /\ ret.mapped) =>
        ValidReading(ret.emotionalState)

\* what the code returns for every detected face
C29_EveryFaceReadsHundred ==
    (ret.op = "analyzeVideoFrame" /\ ret.settled = "resolved" /\ ret.mapped) =>
        ret.emotionalState = [stress |-> 100, clarity |-> 100, engagement |-> 100]

-----------------------------------------------------------------------------
\* C30: a recording never lasts beyond its 30-second maximum: once 30 seconds
\* have elapsed the duration timer's expiry has stopped the MediaRecorder
C30_RecordingStopsAtMaximum ==
    (recorder.elapsed > MAX_DURATION) => (recorder.state = "inactive")

\* what the expiry does in the code: the interval has cleared itself and the
\* MediaRecorder goes on recording with isRecording true
C30_ExpiryLeavesRecorderRunning ==
    (ret.op = "durationInterval" /\ ret.expired) =>
        /\ recorder.state = "recording"
        /\ recorder.isRecording
        /\ ~recorder.durationInterval

\* a stop requested by the user before the maximum does stop the recorder
C30_UserStopStopsRecorder ==
    (ret.op = "stopRecording") => (recorder.state = "inactive")

====
